---------------------------- MODULE Spec2Model ----------------------------
(***************************************************************************)
(* A model of the AI phone agent: the admission gate (rate_limiter.py),    *)
(* the call session (session_manager.py), and the per-call workers of     *)
(* twilio_handler.py (transport handler, audio pipeline, dialogue engine). *)
(* Each part has its own specification; a specification leaves the        *)
(* variables of the other parts at their initial values.                  *)
(***************************************************************************)
EXTENDS Integers, Sequences, FiniteSets, TLC

(***************************************************************************)
(* Program constants.                                                      *)
(***************************************************************************)
\* config.py
MAX_CONCURRENT_CALLS == 5
RATE_LIMIT_WINDOW_MINUTES == 1
RATE_LIMIT_CALLS_PER_WINDOW == 10
AUDIO_SAMPLE_RATE == 8000
VAD_FRAME_MS == 20
VAD_SILENCE_MS == 600
VAD_MIN_SPEECH_MS == 150
ECHO_CANCELLATION_MS == 100
AGENT_RESPONSE_DELAY_MS == 100
MAX_UTTERANCE_LENGTH_MS == 10000
MIN_MEANINGFUL_WORDS == 2
MAX_CALL_DURATION_S == 600
\* twilio_handler.py:229, self.utterance_timeout = 3.0, in ms
utterance_timeout == 3000
\* twilio_handler.py:240, threading.Timer(0.1, ...), in ms
InterruptClearMs == 100
\* twilio_handler.py:316, threading.Timer(3.0, self.stop), in ms
HangupDelayMs == 3000

(***************************************************************************)
(* Bounds of the rate-limiter model.  The wall clock of the limiter is in  *)
(* seconds and stops at MaxTime; callers come from Callers; the clock      *)
(* advances by one of TickSteps between calls.                             *)
(***************************************************************************)
MaxTime == 121
Callers == {"a", "b"}
TickSteps == {60, 61}

VARIABLES
    \* ---- RateLimiter (rate_limiter.py) ----
    active_calls,       \* RateLimiter.active_calls
    call_timestamps,    \* RateLimiter.call_timestamps: caller -> deque of admission times
    now,                \* time.time(), in seconds
    rl_op,              \* the last limiter operation: <<name, caller>>
    rl_ret,             \* what the last can_start_call returned
    rl_window,          \* per caller, the admission times still inside the window
    rl_denied,          \* the callers the per-caller check has refused so far
    \* ---- CallSession (session_manager.py) ----
    conversation_history,   \* CallSession.conversation_history: [role, content] entries
    agent_state,            \* CallSession.agent_state
    duration_elapsed,       \* CallSession.duration >= MAX_CALL_DURATION_S
    \* ---- the WebSocket and its handler (twilio_handler.py, websocket_handler) ----
    ws_open,                \* the socket is open: ws.send succeeds, else it raises
    ws_handler_running,     \* websocket_handler is in its receive loop
    frame_buffer,           \* websocket_handler.frame_buffer, its length in bytes
    marks_pending,          \* marks written to the socket that the carrier has yet to echo
    media_events,           \* media events received so far
    \* ---- AudioProcessor: attributes ----
    ap_stop_event,          \* AudioProcessor.stop_event
    incoming_audio_queue,   \* frames queued; a frame is is_meaningful_speech(frame)
    utterance_queue,        \* utterances queued; an utterance is its length in frames
    last_agent_speech_age,  \* ms since last_agent_speech_time (saturating)
    utterance_start_age,    \* ms since utterance_start_time (saturating), None = -1
    consecutive_speech_frames,
    is_sending_audio,
    stop_audio_transmission,
    \* ---- AudioProcessor.run: position and locals ----
    ap_pc,
    ap_is_speech,           \* is_speech of the frame in hand
    time_since_agent_speech,\* as computed at line 148 for the frame in hand
    ap_state_seen,          \* session.agent_state as read at line 152 for the frame in hand
    ap_calls,               \* the calls made at lines 156-158 for the frame in hand
    ss_steps,               \* what the stop_speaking of line 156 has done so far, in order
    speech_buffer,          \* len(speech_buffer), in frames of frame_bytes
    is_currently_speech,
    silence_started_age,    \* ms since silence_started_at (saturating), None = -1
    pause_tolerance_frames,
    \* ---- CallLogic: attributes and timers ----
    cl_stop_event,          \* CallLogic.stop_event
    interrupted,            \* CallLogic.interrupted
    interrupt_timers,       \* the ages (ms) of the started Timer(0.1) threads, oldest first
    hangup_age,             \* ms since the oldest pending Timer(3.0, self.stop), None = -1
    pending_utterance,
    last_utterance_age,     \* ms since last_utterance_time (saturating)
    \* ---- CallLogic.run: position and locals ----
    cl_pc,
    cl_site,                \* which part of run is synthesizing/sending: greet, reply, idle
    user_text,
    response_json,
    response_pcm,           \* the synthesized audio in 160-byte mu-law chunks, 0 = None
    snd_left,               \* send_audio_to_twilio: chunks of the reply not yet written
    sleep_age,              \* ms since the engine went into time.sleep, None = -1
    \* ---- history of the run, for the claims ----
    snd_interrupt,          \* stop_speaking against the send in progress: none, stopping, returned
    snd_late,               \* chunks the send in progress wrote since line 91 ran against it
    reply_marks,            \* the marks written for the reply last handed to send_audio_to_twilio
    last_chunk_age,         \* ms since the last media chunk of a reply was written (saturating)
    time_since_chunk,       \* last_chunk_age when line 148 ran for the frame in hand
    turn_kind,              \* what the engine made of the utterance in hand
    turn_expect,            \* the text a merge produced
    llm_calls,              \* the user texts passed to generate_response in this turn
    user_parts,             \* the transcripts user_text is made of
    \* ---- the codec (audio_utils.py): one conversion there and back ----
    codec_pc,               \* idle, encoded (pcm_to_ulaw has run), decoded (decode_mulaw has run)
    codec_pcm,              \* the int16 samples handed to pcm_to_ulaw
    codec_ulaw,             \* the bytes pcm_to_ulaw returned
    codec_out,              \* the int16 samples decode_mulaw returned for those bytes
    \* ---- websocket_handler: the accumulator of the media event, byte by byte ----
    rx_frame_buffer,        \* frame_buffer, the bytes it holds
    rx_frames,              \* the frames passed to add_incoming_audio, in order
    rx_decoded,             \* every pcm_bytes decode_mulaw returned, concatenated
    rx_events,              \* media events handled
    \* ---- the calls and connections of the server ----
    ws_conns                \* how many calls /voice admitted wait for their stream, and how
                            \* many websocket_handler runs there are, of admitted calls and of
                            \* connections nobody admitted

rl_vars == <<active_calls, call_timestamps, now, rl_op, rl_ret, rl_window, rl_denied>>

codec_vars == <<codec_pc, codec_pcm, codec_ulaw, codec_out>>

rx_vars == <<rx_frame_buffer, rx_frames, rx_decoded, rx_events>>

\* What no call owns: the limiter and the codec's buffers.
shared_vars == <<rl_vars, codec_vars, rx_vars, ws_conns>>

session_vars == <<conversation_history, agent_state, duration_elapsed>>

ws_vars == <<ws_open, ws_handler_running, frame_buffer, marks_pending, media_events>>

\* last_agent_speech_time, and beside it the time of the last chunk written.
agent_speech_ages == <<last_agent_speech_age, last_chunk_age>>

\* The time line 148 computed, and beside it the time since the last chunk.
ap_times == <<time_since_agent_speech, time_since_chunk>>

\* What the pass made for the frame in hand called, and what the call did.
ap_call_log == <<ap_calls, ss_steps>>

\* What stop_speaking and the send in progress did to each other.
snd_history == <<snd_interrupt, snd_late, reply_marks>>

\* The attributes of the audio pipeline that other threads touch.
ap_shared_vars == <<ap_stop_event, incoming_audio_queue, utterance_queue,
                    agent_speech_ages, is_sending_audio, stop_audio_transmission>>

\* The segmentation state of AudioProcessor.run.
seg_vars == <<speech_buffer, is_currently_speech, silence_started_age,
              pause_tolerance_frames, utterance_start_age>>

\* The rest of what only the audio thread touches.
ap_local_vars == <<ap_pc, ap_is_speech, ap_times, consecutive_speech_frames,
                   ap_state_seen, ap_call_log>>

\* The engine's attributes that other threads touch, and its timers.
cl_shared_vars == <<cl_stop_event, interrupted, interrupt_timers, hangup_age>>

\* What only the engine thread touches.
cl_local_vars == <<cl_pc, cl_site, pending_utterance, last_utterance_age, user_text,
                   response_json, response_pcm, snd_left, sleep_age>>

history_vars == <<snd_history, turn_kind, turn_expect, llm_calls, user_parts>>

cl_vars == <<cl_shared_vars, cl_local_vars, history_vars>>

call_vars == <<ws_vars, ap_shared_vars, seg_vars, ap_local_vars, cl_vars>>

vars == <<rl_vars, codec_vars, rx_vars, ws_conns, session_vars, call_vars>>

\* What the limiter's operations leave alone.
not_rl_vars == <<codec_vars, rx_vars, session_vars, call_vars>>

\* What a bare session operation leaves alone.
not_session_vars == <<shared_vars, duration_elapsed, call_vars>>

(***************************************************************************)
(* RateLimiter                                                             *)
(***************************************************************************)
WindowSeconds == RATE_LIMIT_WINDOW_MINUTES * 60

\* A deque with its entries before window_start dropped by eager filtering:
\* what the window holds by definition, whatever the order of the entries.
InWindow(ts, window_start) == SelectSeq(ts, LAMBDA t : t >= window_start)

\* The mutant of PruneOld that never drops a timestamp.
PruneNothing(timestamps, window_start) == timestamps

\* rate_limiter.py:23-24: while timestamps and timestamps[0] < window_start: popleft()
RECURSIVE PruneOld(_, _)
PruneOld(timestamps, window_start) ==
    IF timestamps # <<>> /\ Head(timestamps) < window_start
    THEN PruneOld(Tail(timestamps), window_start)
    ELSE timestamps

\* No call is admitted and nothing is connected to /ws.
NoConns == [waiting |-> 0, admitted |-> 0, stray |-> 0]

RLInit ==
    /\ ws_conns = NoConns
    /\ active_calls = 0
    /\ call_timestamps = [c \in Callers |-> <<>>]
    /\ now = 0
    /\ rl_op = <<"init", "a">>
    /\ rl_ret = TRUE
    /\ rl_window = [c \in Callers |-> <<>>]
    /\ rl_denied = {}

\* The mutant of can_start_call that counts the call before the per-caller check.
can_start_call_counts_first(caller_id) ==
    /\ rl_op' = <<"can_start_call", caller_id>>
    /\ UNCHANGED <<now, not_rl_vars>>
    /\ IF active_calls >= MAX_CONCURRENT_CALLS
       THEN /\ rl_ret' = FALSE
            /\ UNCHANGED <<active_calls, call_timestamps, rl_window, rl_denied>>
       ELSE LET window_start == now - WindowSeconds
                timestamps == PruneOld(call_timestamps[caller_id], window_start)
            IN  /\ active_calls' = active_calls + 1
                /\ IF Len(timestamps) >= RATE_LIMIT_CALLS_PER_WINDOW
                   THEN /\ rl_ret' = FALSE
                        /\ call_timestamps' = [call_timestamps EXCEPT ![caller_id] = timestamps]
                        /\ rl_denied' = rl_denied \cup {caller_id}
                        /\ UNCHANGED rl_window
                   ELSE /\ rl_ret' = TRUE
                        /\ call_timestamps' =
                              [call_timestamps EXCEPT ![caller_id] = Append(timestamps, now)]
                        /\ rl_window' = [rl_window EXCEPT ![caller_id] = Append(@, now)]
                        /\ UNCHANGED rl_denied

\* rate_limiter.py:12-31.  The whole body runs under self.lock, so it is one step.
\* The deque is pruned in place before the per-caller check, on both outcomes.
can_start_call(caller_id) ==
    /\ rl_op' = <<"can_start_call", caller_id>>
    /\ UNCHANGED <<now, not_rl_vars>>
    /\ IF active_calls >= MAX_CONCURRENT_CALLS
       THEN /\ rl_ret' = FALSE
            /\ UNCHANGED <<active_calls, call_timestamps, rl_window, rl_denied>>
       ELSE LET window_start == now - WindowSeconds
                timestamps == PruneOld(call_timestamps[caller_id], window_start)
            IN  IF Len(timestamps) >= RATE_LIMIT_CALLS_PER_WINDOW
                THEN /\ rl_ret' = FALSE
                     /\ call_timestamps' = [call_timestamps EXCEPT ![caller_id] = timestamps]
                     /\ rl_denied' = rl_denied \cup {caller_id}
                     /\ UNCHANGED <<active_calls, rl_window>>
                ELSE /\ rl_ret' = TRUE
                     /\ active_calls' = active_calls + 1
                     /\ call_timestamps' =
                           [call_timestamps EXCEPT ![caller_id] = Append(timestamps, now)]
                     /\ rl_window' = [rl_window EXCEPT ![caller_id] = Append(@, now)]
                     /\ UNCHANGED rl_denied

\* The mutant of EndCall without the saturation at 0.
EndCallUnguarded ==
    /\ rl_op' = <<"end_call", "a">>
    /\ active_calls' = active_calls - 1
    /\ UNCHANGED <<call_timestamps, now, rl_ret, rl_window, rl_denied>>

\* rate_limiter.py:33-36, under self.lock: what end_call does to the limiter.
EndCall ==
    /\ rl_op' = <<"end_call", "a">>
    /\ active_calls' = IF active_calls > 0 THEN active_calls - 1 ELSE active_calls
    /\ UNCHANGED <<call_timestamps, now, rl_ret, rl_window, rl_denied>>

\* A call of rate_limiter.end_call on its own.
end_call == EndCall /\ UNCHANGED <<not_rl_vars, ws_conns>>

\* Wall time passes between two limiter calls.  rl_window forgets the
\* admissions that have left the window.
RLTick ==
    \E d \in TickSteps :
        /\ now + d <= MaxTime
        /\ now' = now + d
        /\ rl_op' = <<"tick", "a">>
        /\ rl_window' = [c \in Callers |-> InWindow(rl_window[c], now' - WindowSeconds)]
        /\ UNCHANGED <<active_calls, call_timestamps, rl_ret, rl_denied, not_rl_vars, ws_conns>>

RLCall == \E c \in Callers : can_start_call(c) /\ UNCHANGED ws_conns

(***************************************************************************)
(* CallSession                                                             *)
(***************************************************************************)
AgentStates == {"LISTENING", "THINKING", "SPEAKING"}

\* The texts the session model is fed: user inputs and agent responses
\* (the empty response is what generate_response passes first).
UserInputs == {"u1", "u2"}
AgentResponses == {"", "r1"}

\* session_manager.py:14-17 (the dataclass defaults).
SessionInit ==
    /\ conversation_history = <<>>
    /\ agent_state = "LISTENING"
    /\ duration_elapsed = FALSE

\* history[-10:]
LastTen(history) ==
    IF Len(history) > 10
    THEN SubSeq(history, Len(history) - 9, Len(history))
    ELSE history

\* The mutant of AddExchange that trims only after a non-empty response.
AddExchangeTrimsPairsOnly(history, user_input, agent_response) ==
    LET h1 == Append(history, [role |-> "user", content |-> user_input])
    IN  IF agent_response # ""
        THEN LastTen(Append(h1, [role |-> "assistant", content |-> agent_response]))
        ELSE h1

\* session_manager.py:28-35: the history add_exchange leaves (under self.lock).
AddExchange(history, user_input, agent_response) ==
    LET h1 == Append(history, [role |-> "user", content |-> user_input])
        h2 == IF agent_response # ""
              THEN Append(h1, [role |-> "assistant", content |-> agent_response])
              ELSE h1
    IN  IF Len(h2) > 10 THEN LastTen(h2) ELSE h2

\* session_manager.py:23-26
SetState(state, new_state) == IF state # new_state THEN new_state ELSE state

\* A call of session.add_exchange by any thread.
add_exchange ==
    \E u \in UserInputs, r \in AgentResponses :
        /\ conversation_history' = AddExchange(conversation_history, u, r)
        /\ UNCHANGED <<agent_state, not_session_vars>>

\* A call of session.set_state by any thread.
set_state ==
    \E s \in AgentStates :
        /\ agent_state' = SetState(agent_state, s)
        /\ UNCHANGED <<conversation_history, not_session_vars>>


\* session_manager.py:41-42
should_end == duration_elapsed

(***************************************************************************)
(* Time in the call model.  The code reads the wall clock only to take     *)
(* differences with a stored instant (time.time() - x), so every stored     *)
(* instant is kept as its age in milliseconds; an age stops growing just    *)
(* past the largest threshold it is compared with.                         *)
(***************************************************************************)
None == -1

Min(a, b) == IF a < b THEN a ELSE b

\* The age of an instant after d more milliseconds.
AgeBy(age, d, cap) == IF age = None THEN None ELSE Min(age + d, cap)

\* The ages of a sequence of instants after d more milliseconds.
RECURSIVE AgeAll(_, _, _)
AgeAll(ages, d, cap) ==
    IF ages = <<>> THEN <<>>
    ELSE <<AgeBy(Head(ages), d, cap)>> \o AgeAll(Tail(ages), d, cap)

\* d milliseconds pass.
Advance(d) ==
    /\ last_agent_speech_age' = AgeBy(last_agent_speech_age, d, ECHO_CANCELLATION_MS)
    /\ last_chunk_age' = AgeBy(last_chunk_age, d, ECHO_CANCELLATION_MS)
    /\ utterance_start_age' = AgeBy(utterance_start_age, d, MAX_UTTERANCE_LENGTH_MS + 1)
    /\ silence_started_age' = AgeBy(silence_started_age, d, VAD_SILENCE_MS + 1)
    /\ last_utterance_age' = AgeBy(last_utterance_age, d, utterance_timeout + 1)
    /\ sleep_age' = AgeBy(sleep_age, d, AGENT_RESPONSE_DELAY_MS)
    /\ hangup_age' = AgeBy(hangup_age, d, HangupDelayMs)
    /\ interrupt_timers' = AgeAll(interrupt_timers, d, InterruptClearMs)

(***************************************************************************)
(* Text.  A text is a string; the operations below are Python's, computed  *)
(* character by character.  The only whitespace in the model's texts is    *)
(* the space.                                                              *)
(***************************************************************************)
Chr(s, i) == SubSeq(s, i, i)

UpperCase == "ABCDEFGHIJKLMNOPQRSTUVWXYZ"
LowerCase == "abcdefghijklmnopqrstuvwxyz"

LowerChr(c) ==
    IF \E i \in 1..Len(UpperCase) : Chr(UpperCase, i) = c
    THEN Chr(LowerCase, CHOOSE i \in 1..Len(UpperCase) : Chr(UpperCase, i) = c)
    ELSE c

\* str.lower()
RECURSIVE Lower(_)
Lower(s) == IF Len(s) = 0 THEN "" ELSE LowerChr(Chr(s, 1)) \o Lower(SubSeq(s, 2, Len(s)))

RECURSIVE LStrip(_)
LStrip(s) == IF Len(s) > 0 /\ Chr(s, 1) = " " THEN LStrip(SubSeq(s, 2, Len(s))) ELSE s

RECURSIVE RStrip(_)
RStrip(s) ==
    IF Len(s) > 0 /\ Chr(s, Len(s)) = " " THEN RStrip(SubSeq(s, 1, Len(s) - 1)) ELSE s

\* str.strip()
Strip(s) == RStrip(LStrip(s))

\* phrase in s
Contains(s, phrase) ==
    \E i \in 1..(Len(s) - Len(phrase) + 1) : SubSeq(s, i, i + Len(phrase) - 1) = phrase

\* len(s.split())
WordCount(s) ==
    Cardinality({i \in 1..Len(s) : Chr(s, i) # " " /\ (i = 1 \/ Chr(s, i - 1) = " ")})

\* s.endswith(('.', '!', '?'))
EndsSentence(s) == Len(s) > 0 /\ Chr(s, Len(s)) \in {".", "!", "?"}

\* f"{a} {b}".strip()
JoinStrip(a, b) == Strip(a \o " " \o b)

(***************************************************************************)
(* The codec (audio_utils.py).  A PCM buffer is the sequence of its int16  *)
(* samples, a mu-law buffer the sequence of its bytes.  The bit operations *)
(* of the code are computed on the integers: x >> k is x \div 2^k, x & m   *)
(* for a single bit m is the parity of x \div m, and the fields or-ed into *)
(* the byte do not overlap, so that | is +, and ^ 0xFF is 255 - x.         *)
(***************************************************************************)
Int16 == -32768..32767

\* audio_utils.py:10: np.clip(samples, -32767, 32767, out=samples)
Clip(sample) == IF sample < -32767 THEN -32767 ELSE IF sample > 32767 THEN 32767 ELSE sample

Abs(x) == IF x < 0 THEN -x ELSE x

\* audio_utils.py:21-25: the loop that finds the exponent.
RECURSIVE FindExponent(_, _, _)
FindExponent(sample_abs, exponent, mask) ==
    IF (sample_abs \div mask) % 2 = 0 /\ exponent > 0
    THEN FindExponent(sample_abs, exponent - 1, mask \div 2)
    ELSE exponent

\* audio_utils.py:15-18: the magnitude that is encoded.
Magnitude(sample) == Min(Abs(Clip(sample)), 32635)

\* audio_utils.py:21-25, from exponent = 7 and mask = 0x4000
Exponent(sample) == FindExponent(Magnitude(sample), 7, 16384)

\* audio_utils.py:14-28: the byte of one sample.
UlawByte(sample) ==
    LET sign == IF Clip(sample) < 0 THEN 128 ELSE 0
        sample_abs == Magnitude(sample)
        exponent == Exponent(sample)
        mantissa == (sample_abs \div 2^(exponent + 3)) % 16
    IN  255 - (sign + exponent * 16 + mantissa)

\* audio_utils.py:8-31
pcm_to_ulaw(pcm_data) == [i \in 1..Len(pcm_data) |-> UlawByte(pcm_data[i])]

\* audio_utils.py:50: the lookup table, as it stands in the source.
ulaw2lin == <<
    -32124, -31100, -30076, -29052, -28028, -27004, -25980, -24956,
    -23932, -22908, -21884, -20860, -19836, -18812, -17788, -16764,
    -15996, -15484, -14972, -14460, -13948, -13436, -12924, -12412,
    -11900, -11388, -10876, -10364, -9852, -9340, -8828, -8316, -7932,
    -7676, -7420, -7164, -6908, -6652, -6396, -6140, -5884, -5628, -5372,
    -5116, -4860, -4604, -4348, -4092, -3900, -3772, -3644, -3516, -3388,
    -3260, -3132, -3004, -2876, -2748, -2620, -2492, -2364, -2236, -2108,
    -1980, -1884, -1820, -1756, -1692, -1628, -1564, -1500, -1436, -1372,
    -1308, -1244, -1180, -1116, -1052, -988, -924, -876, -844, -812, -780,
    -748, -716, -684, -652, -620, -588, -556, -524, -492, -460, -428,
    -396, -372, -356, -340, -324, -308, -292, -276, -260, -244, -228,
    -212, -196, -180, -164, -148, -132, -128, -120, -112, -104, -96, -88,
    -80, -72, -64, -56, -48, -40, -32, -24, -16, -8, 0, 32124, 31100,
    30076, 29052, 28028, 27004, 25980, 24956, 23932, 22908, 21884, 20860,
    19836, 18812, 17788, 16764, 15996, 15484, 14972, 14460, 13948, 13436,
    12924, 12412, 11900, 11388, 10876, 10364, 9852, 9340, 8828, 8316,
    7932, 7676, 7420, 7164, 6908, 6652, 6396, 6140, 5884, 5628, 5372,
    5116, 4860, 4604, 4348, 4092, 3900, 3772, 3644, 3516, 3388, 3260,
    3132, 3004, 2876, 2748, 2620, 2492, 2364, 2236, 2108, 1980, 1884,
    1820, 1756, 1692, 1628, 1564, 1500, 1436, 1372, 1308, 1244, 1180,
    1116, 1052, 988, 924, 876, 844, 812, 780, 748, 716, 684, 652, 620,
    588, 556, 524, 492, 460, 428, 396, 372, 356, 340, 324, 308, 292, 276,
    260, 244, 228, 212, 196, -180, -164, -148, -132, -128, -120, -112,
    -104, -96, -88, -80, -72, -64, -56, -48, -40, -32, -24, -16, -8, 0
    >>

\* audio_utils.py:51-52: the table is indexed from 0 with each byte.
decode_mulaw(ulaw_data) == [i \in 1..Len(ulaw_data) |-> ulaw2lin[ulaw_data[i] + 1]]

\* No conversion is under way (the codec is left alone).
CodecIdle ==
    /\ codec_pc = "idle"
    /\ codec_pcm = <<>>
    /\ codec_ulaw = <<>>
    /\ codec_out = <<>>

\* The buffers converted: the empty one, every buffer of one sample, and the
\* buffers of up to MaxPcmLen samples out of EdgeSamples.
MaxPcmLen == 2
EdgeSamples == {-32768, -1000, -1, 0, 1, 1000, 32767}
PcmBuffers ==
    {<<>>} \cup {<<s>> : s \in Int16}
           \cup UNION {[1..n -> EdgeSamples] : n \in 2..MaxPcmLen}

CodecInit ==
    /\ codec_pc = "idle"
    /\ codec_pcm \in PcmBuffers
    /\ codec_ulaw = <<>>
    /\ codec_out = <<>>

\* twilio_handler.py:59: ulaw_data = pcm_to_ulaw(pcm_bytes)
CodecEncode ==
    /\ codec_pc = "idle"
    /\ codec_ulaw' = pcm_to_ulaw(codec_pcm)
    /\ codec_pc' = "encoded"
    /\ UNCHANGED <<codec_pcm, codec_out>>
    /\ UNCHANGED <<rl_vars, rx_vars, ws_conns, session_vars, call_vars>>

\* twilio_handler.py:394: decode_mulaw of a payload that carries those bytes.
CodecDecode ==
    /\ codec_pc = "encoded"
    /\ codec_out' = decode_mulaw(codec_ulaw)
    /\ codec_pc' = "decoded"
    /\ UNCHANGED <<codec_pcm, codec_ulaw>>
    /\ UNCHANGED <<rl_vars, rx_vars, ws_conns, session_vars, call_vars>>


(***************************************************************************)
(* websocket_handler: the media event                                      *)
(***************************************************************************)
\* twilio_handler.py:33 and 371: int(AUDIO_SAMPLE_RATE * 2 * (20 / 1000))
frame_bytes == (AUDIO_SAMPLE_RATE * 2 * VAD_FRAME_MS) \div 1000

\* twilio_handler.py:391-400, for a mu-law payload of n bytes.  decode_mulaw
\* gives two PCM bytes per payload byte; whole frames leave the accumulator,
\* the tail stays.  Each frame handed over is speech or not, as
\* is_meaningful_speech will find it.
MediaEvent(n) ==
    LET total == frame_buffer + 2 * n
        k == total \div frame_bytes
    IN  \E frames \in [1..k -> BOOLEAN] :
            /\ frame_buffer' = total % frame_bytes
            /\ incoming_audio_queue' = incoming_audio_queue \o frames

(***************************************************************************)
(* AudioProcessor.run                                                      *)
(***************************************************************************)
\* twilio_handler.py:140
min_speech_frames == VAD_MIN_SPEECH_MS \div VAD_FRAME_MS
\* twilio_handler.py:142
max_pause_tolerance_frames == 10

\* twilio_handler.py:22-41 and 137-141: the pipeline as constructed and started.
AudioInit ==
    /\ ap_stop_event = FALSE
    /\ incoming_audio_queue = <<>>
    /\ utterance_queue = <<>>
    /\ last_agent_speech_age = ECHO_CANCELLATION_MS
    /\ last_chunk_age = ECHO_CANCELLATION_MS
    /\ utterance_start_age = None
    /\ consecutive_speech_frames = 0
    /\ is_sending_audio = FALSE
    /\ stop_audio_transmission = FALSE
    /\ ap_pc = "get"
    /\ ap_is_speech = FALSE
    /\ time_since_agent_speech = ECHO_CANCELLATION_MS
    /\ time_since_chunk = ECHO_CANCELLATION_MS
    /\ ap_state_seen = "LISTENING"
    /\ ap_calls = <<>>
    /\ ss_steps = <<>>
    /\ speech_buffer = 0
    /\ is_currently_speech = FALSE
    /\ silence_started_age = None
    /\ pause_tolerance_frames = 0

\* What the audio thread's loop leaves alone, apart from what each step names.
not_ap_vars == <<shared_vars, conversation_history, duration_elapsed, ws_vars, cl_vars>>

\* twilio_handler.py:144: while not self.stop_event.is_set().  A pass of the
\* loop ends by reading the flag; the thread that read it clear is at "get",
\* and so is the thread that has yet to read it (AP_Loop).
LoopHead == IF ap_stop_event THEN "done" ELSE "get"

\* twilio_handler.py:144: the flag is read set, the loop is left.
AP_Loop ==
    /\ ap_pc = "get"
    /\ ap_stop_event
    /\ ap_pc' = "done"
    /\ UNCHANGED <<ap_is_speech, ap_times, consecutive_speech_frames,
                   ap_state_seen, ap_call_log>>
    /\ UNCHANGED <<not_ap_vars, agent_state, ap_shared_vars, seg_vars>>

\* twilio_handler.py:146-151: a frame is taken, the time since the agent's
\* last speech is computed and the frame is classified.
AP_Get ==
    /\ ap_pc = "get"
    /\ incoming_audio_queue # <<>>
    /\ ap_is_speech' = Head(incoming_audio_queue)
    /\ incoming_audio_queue' = Tail(incoming_audio_queue)
    /\ time_since_agent_speech' = last_agent_speech_age
    /\ time_since_chunk' = last_chunk_age
    /\ ap_pc' = "barge"
    /\ UNCHANGED <<ap_stop_event, utterance_queue, agent_speech_ages,
                   is_sending_audio, stop_audio_transmission>>
    /\ UNCHANGED <<consecutive_speech_frames, ap_state_seen, ap_call_log>>
    /\ UNCHANGED <<not_ap_vars, agent_state, seg_vars>>

\* twilio_handler.py:198 and 209: len(speech_buffer) / self.frame_bytes > min_speech_frames
ShouldEmit(buffer) == buffer > min_speech_frames

\* twilio_handler.py:198-205 and 208-216: the buffer is put on the utterance
\* queue if it is long enough, and the segmentation state is reset.
FlushUtterance ==
    /\ utterance_queue' = IF ShouldEmit(speech_buffer)
                          THEN Append(utterance_queue, speech_buffer)
                          ELSE utterance_queue
    /\ speech_buffer' = 0
    /\ is_currently_speech' = FALSE
    /\ silence_started_age' = None
    /\ utterance_start_age' = None
    /\ pause_tolerance_frames' = 0

\* twilio_handler.py:207-217: no frame for 100 ms.
AP_Empty ==
    /\ ap_pc = "get"
    /\ incoming_audio_queue = <<>>
    /\ IF is_currently_speech
       THEN FlushUtterance
       ELSE UNCHANGED <<utterance_queue, seg_vars>>
    /\ ap_pc' = LoopHead
    /\ UNCHANGED <<ap_stop_event, incoming_audio_queue, agent_speech_ages,
                   is_sending_audio, stop_audio_transmission>>
    /\ UNCHANGED <<ap_is_speech, ap_times, consecutive_speech_frames,
                   ap_state_seen, ap_call_log>>
    /\ UNCHANGED <<not_ap_vars, agent_state>>

\* twilio_handler.py:163-205, for the frame in hand: echo suppression and
\* segmentation, with csf the value lines 152-161 left in
\* consecutive_speech_frames.  Every time.time() of the pass reads the same
\* instant.  The pass ends here, and what it kept about the frame is dead.
Segment(csf) ==
    /\ ap_pc' = LoopHead
    /\ ap_is_speech' = FALSE
    /\ time_since_agent_speech' = ECHO_CANCELLATION_MS
    /\ time_since_chunk' = ECHO_CANCELLATION_MS
    /\ ap_state_seen' = "LISTENING"
    /\ ap_calls' = <<>>
    /\ ss_steps' = <<>>
    /\ IF time_since_agent_speech < ECHO_CANCELLATION_MS
       THEN /\ consecutive_speech_frames' = csf
            /\ UNCHANGED <<utterance_queue, seg_vars>>
       ELSE IF ap_is_speech
       THEN /\ consecutive_speech_frames' = csf + 1
            /\ pause_tolerance_frames' = 0
            /\ utterance_start_age' = IF ~is_currently_speech THEN 0 ELSE utterance_start_age
            /\ speech_buffer' = speech_buffer + 1
            /\ is_currently_speech' = TRUE
            /\ silence_started_age' = None
            /\ UNCHANGED utterance_queue
       ELSE /\ consecutive_speech_frames' = 0
            /\ IF ~is_currently_speech
               THEN UNCHANGED <<utterance_queue, seg_vars>>
               ELSE IF pause_tolerance_frames < max_pause_tolerance_frames
               THEN /\ pause_tolerance_frames' = pause_tolerance_frames + 1
                    /\ speech_buffer' = speech_buffer + 1
                    /\ UNCHANGED <<utterance_queue, is_currently_speech,
                                   silence_started_age, utterance_start_age>>
               ELSE LET started == IF silence_started_age = None THEN 0
                                   ELSE silence_started_age
                        silence_duration == started
                        utterance_duration == IF utterance_start_age # None
                                              THEN utterance_start_age ELSE 0
                    IN  IF \/ silence_duration > VAD_SILENCE_MS
                           \/ utterance_duration > MAX_UTTERANCE_LENGTH_MS
                        THEN FlushUtterance
                        ELSE /\ silence_started_age' = started
                             /\ UNCHANGED <<utterance_queue, speech_buffer,
                                            is_currently_speech, pause_tolerance_frames,
                                            utterance_start_age>>

\* The mutant of BargeInThreshold that waits for a second speech frame.
BargeInThresholdTwo == 1 + 1

\* twilio_handler.py:154: if self.consecutive_speech_frames >= 1
BargeInThreshold == 1

\* twilio_handler.py:152-156: the frame in hand is speech and the agent is
\* SPEAKING.  At the threshold the call of stop_speaking at line 156 starts;
\* below it the pass goes on to line 163.
AP_Barge ==
    /\ ap_pc = "barge"
    /\ ap_is_speech /\ agent_state = "SPEAKING"
    /\ IF consecutive_speech_frames + 1 >= BargeInThreshold
       THEN /\ consecutive_speech_frames' = consecutive_speech_frames + 1
            /\ ap_state_seen' = agent_state
            /\ ap_calls' = Append(ap_calls, "stop_speaking")
            /\ UNCHANGED ss_steps
            /\ ap_pc' = "ss91"
            /\ UNCHANGED <<ap_is_speech, ap_times, utterance_queue, seg_vars>>
       ELSE Segment(consecutive_speech_frames + 1)
    /\ UNCHANGED <<ap_stop_event, incoming_audio_queue, agent_speech_ages,
                   is_sending_audio, stop_audio_transmission>>
    /\ UNCHANGED <<not_ap_vars, agent_state>>

\* twilio_handler.py:152 and 160-205: the frame in hand is not speech (and
\* session.agent_state is not read), or the agent is not SPEAKING: line 161
\* resets consecutive_speech_frames and the frame is segmented.
AP_Segment ==
    /\ ap_pc = "barge"
    /\ ~(ap_is_speech /\ agent_state = "SPEAKING")
    /\ Segment(0)
    /\ UNCHANGED <<ap_stop_event, incoming_audio_queue, agent_speech_ages,
                   is_sending_audio, stop_audio_transmission>>
    /\ UNCHANGED <<not_ap_vars, agent_state>>

(***************************************************************************)
(* websocket_handler: the media event, byte by byte                        *)
(***************************************************************************)
\* numpy's tobytes() of an int16 array: two bytes a sample, the low one first.
ToBytes(samples) ==
    [i \in 1..(2 * Len(samples)) |->
        LET s == samples[(i + 1) \div 2] % 65536
        IN  IF i % 2 = 1 THEN s % 256 ELSE s \div 256]

\* twilio_handler.py:370-371 and 381-389: the accumulator once the start
\* event has been handled.
RxInit ==
    /\ rx_frame_buffer = <<>>
    /\ rx_frames = <<>>
    /\ rx_decoded = <<>>
    /\ rx_events = 0

\* The mutant of Reframe that leaves a whole frame in the accumulator.
RECURSIVE ReframeStrict(_, _)
ReframeStrict(buffer, frames) ==
    IF Len(buffer) > frame_bytes
    THEN ReframeStrict(SubSeq(buffer, frame_bytes + 1, Len(buffer)),
                       Append(frames, SubSeq(buffer, 1, frame_bytes)))
    ELSE [frame_buffer |-> buffer, frames |-> frames]

\* twilio_handler.py:397-400: while len(frame_buffer) >= frame_bytes the
\* first frame_bytes bytes are cut off and passed to add_incoming_audio.
RECURSIVE Reframe(_, _)
Reframe(buffer, frames) ==
    IF Len(buffer) >= frame_bytes
    THEN Reframe(SubSeq(buffer, frame_bytes + 1, Len(buffer)),
                 Append(frames, SubSeq(buffer, 1, frame_bytes)))
    ELSE [frame_buffer |-> buffer, frames |-> frames]

\* Bounds: MaxRxEvents media events; the payload of an event is of one of
\* these lengths in mu-law bytes, and its bytes count on from the bytes
\* received before it, so that no two stretches of the stream look alike.
MaxRxEvents == 3
RxPayloadLens == {0, 1, 2, 80, 159, 160, 161, 320, 481}
RxPayload(n, received) == [i \in 1..n |-> (received + i) % 256]

\* twilio_handler.py:391-400: a media event with a payload of n mu-law bytes.
RxMedia ==
    /\ rx_events < MaxRxEvents
    /\ \E n \in RxPayloadLens :
           LET pcm_bytes == ToBytes(decode_mulaw(RxPayload(n, Len(rx_decoded) \div 2)))
               out == Reframe(rx_frame_buffer \o pcm_bytes, <<>>)
           IN  /\ rx_frame_buffer' = out.frame_buffer
               /\ rx_frames' = rx_frames \o out.frames
               /\ rx_decoded' = rx_decoded \o pcm_bytes
    /\ rx_events' = rx_events + 1
    /\ UNCHANGED <<rl_vars, codec_vars, ws_conns, session_vars, call_vars>>


(***************************************************************************)
(* AudioProcessor.stop_speaking and CallLogic.handle_interruption, both    *)
(* run by the audio thread from lines 156-159 of its loop.                 *)
(***************************************************************************)
\* The engine's positions inside send_audio_to_twilio, past line 52.
SendPcs == {"s53", "s54", "s55", "s_check", "s_write", "s_after", "s_mark", "s_end"}

\* What the steps of stop_speaking and handle_interruption leave alone, apart
\* from what each names.
not_ss_vars == <<shared_vars, conversation_history, duration_elapsed, seg_vars,
                 ws_open, ws_handler_running, frame_buffer, media_events,
                 ap_stop_event, incoming_audio_queue, utterance_queue, agent_speech_ages,
                 ap_is_speech, ap_times, ap_state_seen,
                 cl_stop_event, hangup_age, cl_local_vars,
                 turn_kind, turn_expect, llm_calls, user_parts>>

\* twilio_handler.py:91 and 114, as steps of stop_speaking
FlagStep == [step |-> "stop_audio_transmission"]
StateStep(state) == [step |-> "set_state", state |-> state]

\* twilio_handler.py:95: b'\xFF' * 160, as the byte and how many times it stands
SilenceByte == 255
SilenceBytes == 160
empty_audio == [byte |-> SilenceByte, times |-> SilenceBytes]

\* twilio_handler.py:97-101, 105 and 108-112: the messages stop_speaking writes
StopMessage(payload) == [step |-> "ws.send", event |-> "media", payload |-> payload]
ClearEvent == [step |-> "ws.send", event |-> "clear"]
MarkEvent(name) == [step |-> "ws.send", event |-> "mark", name |-> name]

\* twilio_handler.py:96: for _ in range(5)
SilenceFrames == 5

\* The mutant of FlushWrites that clears the carrier's queue before the silence.
FlushWritesClearFirst == <<ClearEvent>> \o [i \in 1..SilenceFrames |-> StopMessage(empty_audio)]

\* twilio_handler.py:96-106: the writes of the flush, in the order made
FlushWrites == [i \in 1..SilenceFrames |-> StopMessage(empty_audio)] \o <<ClearEvent>>

\* twilio_handler.py:91
SS_91 ==
    /\ ap_pc = "ss91"
    /\ stop_audio_transmission' = TRUE
    /\ snd_interrupt' = IF cl_pc \in SendPcs THEN "stopping" ELSE snd_interrupt
    /\ UNCHANGED <<snd_late, reply_marks>>
    /\ ss_steps' = Append(ss_steps, FlagStep)
    /\ ap_pc' = "ss92"
    /\ UNCHANGED <<not_ss_vars, agent_state, is_sending_audio, marks_pending,
                   consecutive_speech_frames, ap_calls, interrupted, interrupt_timers>>

\* twilio_handler.py:92
SS_92 ==
    /\ ap_pc = "ss92"
    /\ is_sending_audio' = FALSE
    /\ ap_pc' = "ss95"
    /\ UNCHANGED <<not_ss_vars, agent_state, stop_audio_transmission, marks_pending,
                   consecutive_speech_frames, ap_call_log, interrupted, interrupt_timers,
                   snd_history>>

\* stop_speaking returns to line 157, normally or through its except clause.
SS_Return ==
    /\ ap_pc' = "hi237"
    /\ snd_interrupt' = IF snd_interrupt = "stopping" THEN "returned" ELSE snd_interrupt
    /\ UNCHANGED snd_late

\* twilio_handler.py:95-106: five media frames of silence, then the clear
\* event.  A write to a closed socket raises, which ends stop_speaking (116).
SS_Flush ==
    /\ ap_pc = "ss95"
    /\ IF ws_open
       THEN /\ ss_steps' = ss_steps \o FlushWrites
            /\ ap_pc' = "ss113"
            /\ UNCHANGED <<snd_interrupt, snd_late>>
       ELSE /\ SS_Return
            /\ UNCHANGED ss_steps
    /\ UNCHANGED reply_marks
    /\ UNCHANGED <<not_ss_vars, agent_state, is_sending_audio, stop_audio_transmission,
                   marks_pending, consecutive_speech_frames, ap_calls, interrupted,
                   interrupt_timers>>

\* twilio_handler.py:108-113: the mark agent_speech_stopped.
SS_Mark ==
    /\ ap_pc = "ss113"
    /\ IF ws_open
       THEN /\ marks_pending' = marks_pending + 1
            /\ reply_marks' = reply_marks \cup {"stopped"}
            /\ ss_steps' = Append(ss_steps, MarkEvent("agent_speech_stopped"))
            /\ ap_pc' = "ss114"
            /\ UNCHANGED <<snd_interrupt, snd_late>>
       ELSE /\ SS_Return
            /\ UNCHANGED <<marks_pending, reply_marks, ss_steps>>
    /\ UNCHANGED <<not_ss_vars, agent_state, is_sending_audio, stop_audio_transmission,
                   consecutive_speech_frames, ap_calls, interrupted, interrupt_timers>>

\* twilio_handler.py:114: self.session.set_state("LISTENING"), and the return.
SS_State ==
    /\ ap_pc = "ss114"
    /\ agent_state' = SetState(agent_state, "LISTENING")
    /\ ss_steps' = Append(ss_steps, StateStep("LISTENING"))
    /\ SS_Return
    /\ UNCHANGED reply_marks
    /\ UNCHANGED <<not_ss_vars, is_sending_audio, stop_audio_transmission, marks_pending,
                   consecutive_speech_frames, ap_calls, interrupted, interrupt_timers>>

\* twilio_handler.py:158 and 237: handle_interruption is entered, self.interrupted = True
HI_237 ==
    /\ ap_pc = "hi237"
    /\ ap_calls' = Append(ap_calls, "handle_interruption")
    /\ UNCHANGED ss_steps
    /\ interrupted' = TRUE
    /\ ap_pc' = "hi238"
    /\ UNCHANGED <<not_ss_vars, agent_state, is_sending_audio, stop_audio_transmission,
                   marks_pending, consecutive_speech_frames, interrupt_timers, snd_history>>

\* twilio_handler.py:238: self.session.set_state("LISTENING")
HI_238 ==
    /\ ap_pc = "hi238"
    /\ agent_state' = SetState(agent_state, "LISTENING")
    /\ ap_pc' = "hi240"
    /\ UNCHANGED <<not_ss_vars, is_sending_audio, stop_audio_transmission, marks_pending,
                   consecutive_speech_frames, ap_call_log, interrupted, interrupt_timers,
                   snd_history>>

\* twilio_handler.py:240 and 159-205: the Timer that clears the flag is
\* started; back in the loop consecutive_speech_frames is reset and the frame
\* is segmented.
HI_240 ==
    /\ ap_pc = "hi240"
    /\ interrupt_timers' = Append(interrupt_timers, 0)
    /\ Segment(0)
    /\ UNCHANGED <<shared_vars, conversation_history, duration_elapsed,
                   ws_vars, ap_stop_event, incoming_audio_queue, agent_speech_ages,
                   cl_stop_event, hangup_age, cl_local_vars, history_vars>>
    /\ UNCHANGED <<agent_state, is_sending_audio, stop_audio_transmission, interrupted>>

\* twilio_handler.py:240: a Timer started by handle_interruption fires, no
\* sooner than InterruptClearMs after its start: setattr(self, 'interrupted', False)
InterruptTimerFires ==
    /\ interrupt_timers # <<>>
    /\ Head(interrupt_timers) >= InterruptClearMs
    /\ interrupt_timers' = Tail(interrupt_timers)
    /\ interrupted' = FALSE
    /\ UNCHANGED <<shared_vars, session_vars, ws_vars, ap_shared_vars, seg_vars, ap_local_vars,
                   cl_stop_event, hangup_age, cl_local_vars, history_vars>>

\* twilio_handler.py:316: the Timer started on a hangup fires: self.stop()
HangupTimerFires ==
    /\ hangup_age # None
    /\ hangup_age >= HangupDelayMs
    /\ hangup_age' = None
    /\ cl_stop_event' = TRUE
    /\ UNCHANGED <<shared_vars, session_vars, ws_vars, ap_shared_vars, seg_vars, ap_local_vars,
                   interrupted, interrupt_timers, cl_local_vars, history_vars>>


(***************************************************************************)
(* ai_services.py                                                          *)
(***************************************************************************)
\* ai_services.py:62-71
hallucinations ==
    {"thank you for calling", "how may i help you today",
     "is there anything else i can help you with",
     "have a great day and thank you for calling", "end of call", "call ended",
     "system message", "automated response"}

\* ai_services.py:58-84, for the text stt_text of the STT reply.  A failure
\* of the STT call (86-87) returns "" as the empty transcript does.
transcribe_audio(stt_text) ==
    LET stripped == Strip(stt_text)
    IN  IF stripped = "" THEN ""
        ELSE IF \E phrase \in hallucinations : Contains(Lower(stripped), phrase) THEN ""
        ELSE IF Len(Strip(stripped)) < 3 THEN ""
        ELSE stripped

\* The texts the STT service returns in the model.
Transcripts == {"", " ok ", "Hmm", "Call ended.", "hello", "what is", "your name",
                "Yes please."}

\* A JSON object of the LLM is [action, text]; a key may be absent, and the
\* text may be null.
Missing == "<missing>"
Null == "<null>"
EmptyDict == [action |-> Missing, text |-> Missing]

\* dict.get(key, default)
Get(json, key, default) == IF json[key] = Missing THEN default ELSE json[key]

\* The truth value Python gives a text (None and "" are false).
Truthy(text) == text \notin {Null, ""}

\* The JSON objects the LLM returns in the model.
LLMReplies ==
    {[action |-> "respond", text |-> "Sure."],
     [action |-> "hangup", text |-> "Bye."],
     [action |-> "respond", text |-> "Ok"],
     [action |-> "respond", text |-> Null],
     EmptyDict}

\* What a call of the LLM comes to: an exception, or a JSON object.
LLMOutcomes == {[ok |-> FALSE, json |-> EmptyDict]} \cup
               {[ok |-> TRUE, json |-> j] : j \in LLMReplies}

\* ai_services.py:128-129
FallbackResponse == [action |-> "respond", text |-> "Sorry, could you repeat that?"]

\* ai_services.py:89-129: the history generate_response leaves and the object
\* it returns.  The user's text is recorded before the call (91) and, when
\* the call succeeds, once more with the reply (125).
generate_response(history, user_input, outcome) ==
    LET recorded == AddExchange(history, user_input, "")
    IN  IF outcome.ok
        THEN [history |-> AddExchange(recorded, user_input,
                                      IF Truthy(Get(outcome.json, "text", ""))
                                      THEN outcome.json.text ELSE ""),
              response |-> outcome.json]
        ELSE [history |-> recorded, response |-> FallbackResponse]


(***************************************************************************)
(* CallLogic.run, the engine thread.  cl_pc names the line the thread is   *)
(* about to execute (r: utterance path, i: idle path, s: inside            *)
(* send_audio_to_twilio, syn: inside synthesize_speech, x: after the loop).*)
(***************************************************************************)
\* What the engine thread never writes.
not_cl_vars == <<shared_vars, duration_elapsed, seg_vars, ap_local_vars, ws_handler_running,
                 frame_buffer, media_events, incoming_audio_queue, interrupt_timers>>

\* What the engine thread writes, in groups.
eng_session == <<conversation_history, agent_state>>
eng_ws == <<ws_open, marks_pending>>
eng_ap == <<ap_stop_event, utterance_queue, agent_speech_ages, is_sending_audio,
            stop_audio_transmission>>
eng_self == <<cl_stop_event, interrupted, hangup_age>>
\* The locals of one pass of the loop, and what is remembered about the pass.
eng_pass == <<cl_site, user_text, response_json, response_pcm>>
eng_turn == <<turn_kind, turn_expect, llm_calls, user_parts>>
\* What the engine keeps from pass to pass, and the locals of a send or sleep.
eng_keep == <<pending_utterance, last_utterance_age, snd_left, sleep_age>>
eng_data == <<eng_pass, eng_keep>>

\* twilio_handler.py:222-230, and run about to synthesize the greeting (246).
EngineInit ==
    /\ cl_stop_event = FALSE
    /\ interrupted = FALSE
    /\ interrupt_timers = <<>>
    /\ hangup_age = None
    /\ pending_utterance = ""
    /\ last_utterance_age = utterance_timeout + 1
    /\ cl_pc = "syn_probe"
    /\ cl_site = "greet"
    /\ user_text = ""
    /\ response_json = EmptyDict
    /\ response_pcm = 0
    /\ snd_left = 0
    /\ sleep_age = None
    /\ snd_interrupt = "none"
    /\ snd_late = 0
    /\ reply_marks = {}
    /\ turn_kind = "none"
    /\ turn_expect = ""
    /\ llm_calls = <<>>
    /\ user_parts = <<>>

\* twilio_handler.py:250: a pass ends (continue, or the end of the body) by
\* reading the stop flag, given as it is after the step.  The thread that
\* read it clear is at "poll", and so is the thread that has yet to read it
\* (CL_Loop).  The locals of the pass are dead.
BackToLoop(stop) ==
    /\ cl_pc' = IF stop THEN "x336" ELSE "poll"
    /\ cl_site' = "none"
    /\ user_text' = ""
    /\ response_json' = EmptyDict
    /\ response_pcm' = 0
    /\ turn_kind' = "none"
    /\ turn_expect' = ""
    /\ llm_calls' = <<>>
    /\ user_parts' = <<>>

\* Where synthesize_speech returns to: lines 247, 304, 325.
SynReturn(site) == CASE site = "greet" -> "g247" [] site = "reply" -> "r304"
                     [] site = "idle" -> "i325"

\* Bound: the synthesized audio of a reply is MaxReplyChunks chunks long.
MaxReplyChunks == 2

\* ai_services.py:16-17: the probe before the TTS call.  The idle path passes
\* no probe (twilio_handler.py:324).
CL_SynProbe ==
    /\ cl_pc = "syn_probe"
    /\ IF cl_site # "idle" /\ interrupted
       THEN response_pcm' = 0 /\ cl_pc' = SynReturn(cl_site)
       ELSE cl_pc' = "syn_call" /\ UNCHANGED response_pcm
    /\ UNCHANGED <<cl_site, user_text, response_json, eng_keep>>
    /\ UNCHANGED <<not_cl_vars, eng_session, eng_ws, eng_ap, eng_self, snd_history, eng_turn>>

\* ai_services.py:19-39: the TTS call fails (no audio) or returns audio,
\* which the probe after the call turns into None if the flag is set.
CL_SynCall ==
    /\ cl_pc = "syn_call"
    /\ \E n \in {0, MaxReplyChunks} :
           response_pcm' = IF cl_site # "idle" /\ interrupted THEN 0 ELSE n
    /\ cl_pc' = SynReturn(cl_site)
    /\ UNCHANGED <<cl_site, user_text, response_json, eng_keep>>
    /\ UNCHANGED <<not_cl_vars, eng_session, eng_ws, eng_ap, eng_self, snd_history, eng_turn>>

\* twilio_handler.py:247-248
CL_Greet247 ==
    /\ cl_pc = "g247"
    /\ IF response_pcm > 0 /\ ~interrupted
       THEN cl_pc' = "s52" /\ UNCHANGED <<eng_pass, eng_turn>>
       ELSE BackToLoop(cl_stop_event)
    /\ UNCHANGED <<not_cl_vars, eng_session, eng_ws, eng_ap, eng_self, eng_keep, snd_history>>

(***************************************************************************)
(* AudioProcessor.send_audio_to_twilio, run by the engine thread           *)
(***************************************************************************)
\* twilio_handler.py:52
CL_S52 ==
    /\ cl_pc = "s52"
    /\ is_sending_audio' = TRUE
    /\ snd_interrupt' = "none"
    /\ snd_late' = 0
    /\ reply_marks' = {}
    /\ cl_pc' = "s53"
    /\ UNCHANGED <<ap_stop_event, utterance_queue, agent_speech_ages,
                   stop_audio_transmission>>
    /\ UNCHANGED <<not_cl_vars, eng_session, eng_ws, eng_self, eng_data, eng_turn>>

\* twilio_handler.py:53
CL_S53 ==
    /\ cl_pc = "s53"
    /\ stop_audio_transmission' = FALSE
    /\ cl_pc' = "s54"
    /\ UNCHANGED <<ap_stop_event, utterance_queue, agent_speech_ages, is_sending_audio>>
    /\ UNCHANGED <<not_cl_vars, eng_session, eng_ws, eng_self, eng_data, snd_history,
                   eng_turn>>

\* twilio_handler.py:54
CL_S54 ==
    /\ cl_pc = "s54"
    /\ agent_state' = SetState(agent_state, "SPEAKING")
    /\ cl_pc' = "s55"
    /\ UNCHANGED <<not_cl_vars, conversation_history, eng_ws, eng_ap, eng_self, eng_data,
                   snd_history, eng_turn>>

\* twilio_handler.py:55-59: last_agent_speech_time is set, the audio is cut
\* into chunks of 160 mu-law bytes.
CL_S55 ==
    /\ cl_pc = "s55"
    /\ last_agent_speech_age' = 0
    /\ snd_left' = response_pcm
    /\ UNCHANGED last_chunk_age
    /\ cl_pc' = "s_check"
    /\ UNCHANGED <<ap_stop_event, utterance_queue, is_sending_audio, stop_audio_transmission>>
    /\ UNCHANGED <<eng_pass, pending_utterance, last_utterance_age, sleep_age>>
    /\ UNCHANGED <<not_cl_vars, eng_session, eng_ws, eng_self, snd_history, eng_turn>>

\* twilio_handler.py:61-64: the loop head and the check of stop_audio_transmission
CL_SCheck ==
    /\ cl_pc = "s_check"
    /\ cl_pc' = IF snd_left = 0 \/ stop_audio_transmission THEN "s_after" ELSE "s_write"
    /\ UNCHANGED <<not_cl_vars, eng_session, eng_ws, eng_ap, eng_self, eng_data,
                   snd_history, eng_turn>>

\* twilio_handler.py:66-74: one chunk is written to the socket; a closed
\* socket raises, which takes the thread to line 84.
CL_SWrite ==
    /\ cl_pc = "s_write"
    /\ IF ws_open
       THEN /\ snd_left' = snd_left - 1
            /\ cl_pc' = "s_check"
            /\ last_chunk_age' = 0
            /\ snd_late' = IF snd_interrupt = "none" THEN snd_late ELSE snd_late + 1
       ELSE /\ snd_left' = 0
            /\ cl_pc' = "s_end"
            /\ UNCHANGED <<last_chunk_age, snd_late>>
    /\ UNCHANGED <<ap_stop_event, utterance_queue, last_agent_speech_age, is_sending_audio,
                   stop_audio_transmission>>
    /\ UNCHANGED <<eng_pass, pending_utterance, last_utterance_age, sleep_age>>
    /\ UNCHANGED <<not_cl_vars, eng_session, eng_ws, eng_self, snd_interrupt, reply_marks,
                   eng_turn>>

\* twilio_handler.py:76
CL_SAfter ==
    /\ cl_pc = "s_after"
    /\ cl_pc' = IF ~stop_audio_transmission THEN "s_mark" ELSE "s_end"
    /\ snd_left' = 0
    /\ UNCHANGED <<eng_pass, pending_utterance, last_utterance_age, sleep_age>>
    /\ UNCHANGED <<not_cl_vars, eng_session, eng_ws, eng_ap, eng_self, snd_history, eng_turn>>

\* twilio_handler.py:77-82: the mark agent_speech_complete is written.
CL_SMark ==
    /\ cl_pc = "s_mark"
    /\ marks_pending' = IF ws_open THEN marks_pending + 1 ELSE marks_pending
    /\ reply_marks' = IF ws_open THEN reply_marks \cup {"complete"} ELSE reply_marks
    /\ cl_pc' = "s_end"
    /\ UNCHANGED <<not_cl_vars, eng_session, ws_open, eng_ap, eng_self, eng_data,
                   snd_interrupt, snd_late, eng_turn>>

\* twilio_handler.py:83, or 86 after an exception: is_sending_audio = False,
\* and the return to run: to the loop from the greeting, else to 314 or 327.
CL_SEnd ==
    /\ cl_pc = "s_end"
    /\ is_sending_audio' = FALSE
    /\ snd_interrupt' = "none"
    /\ snd_late' = 0
    /\ UNCHANGED reply_marks
    /\ IF cl_site = "greet"
       THEN BackToLoop(cl_stop_event)
       ELSE /\ cl_pc' = IF cl_site = "reply" THEN "r314" ELSE "i327"
            /\ UNCHANGED <<eng_pass, eng_turn>>
    /\ UNCHANGED <<ap_stop_event, utterance_queue, agent_speech_ages,
                   stop_audio_transmission>>
    /\ UNCHANGED <<not_cl_vars, eng_session, eng_ws, eng_self, eng_keep>>


(***************************************************************************)
(* CallLogic.run: the loop                                                 *)
(***************************************************************************)
\* twilio_handler.py:250: the flag is read set, the loop is left.
CL_Loop ==
    /\ cl_pc = "poll"
    /\ cl_stop_event
    /\ cl_pc' = "x336"
    /\ UNCHANGED <<not_cl_vars, eng_session, eng_ws, eng_ap, eng_self, eng_data,
                   snd_history, eng_turn>>

\* twilio_handler.py:252: an utterance is taken off the queue.
CL_Take ==
    /\ cl_pc = "poll"
    /\ utterance_queue # <<>>
    /\ utterance_queue' = Tail(utterance_queue)
    /\ turn_kind' = "taken"
    /\ cl_pc' = "r254"
    /\ UNCHANGED <<ap_stop_event, agent_speech_ages, is_sending_audio,
                   stop_audio_transmission>>
    /\ UNCHANGED <<not_cl_vars, eng_session, eng_ws, eng_self, eng_data, snd_history,
                   turn_expect, llm_calls, user_parts>>

\* twilio_handler.py:254
CL_Thinking ==
    /\ cl_pc = "r254"
    /\ agent_state' = SetState(agent_state, "THINKING")
    /\ cl_pc' = "r255"
    /\ UNCHANGED <<not_cl_vars, conversation_history, eng_ws, eng_ap, eng_self, eng_data,
                   snd_history, eng_turn>>

\* twilio_handler.py:262
fillers == {"hmm", "um", "uh", "ah", "eh", "oh"}

\* twilio_handler.py:258: len(user_text.strip()) < MIN_MEANINGFUL_WORDS
TooShort(text) == Len(Strip(text)) < MIN_MEANINGFUL_WORDS

\* twilio_handler.py:258-264: the filter on the transcript.
Filtered(text) ==
    \/ text = ""
    \/ TooShort(text)
    \/ Strip(Lower(text)) \in fillers

\* The mutant of Coalesce that merges at any time while a text is pending.
CoalesceWhilePending(age, pending) == pending # ""

\* twilio_handler.py:268: current_time - self.last_utterance_time < self.utterance_timeout
Coalesce(age, pending) == age < utterance_timeout

\* twilio_handler.py:255-279: the STT service returns some text for the
\* utterance; the text is filtered out, or combined with what is pending, or
\* kept as pending_utterance (short and without end punctuation), or goes on
\* alone.  Until line 259, 276 or 282 the pass touches nothing another thread
\* reads, and it reads the clock once, at line 267.
CL_Stt ==
    /\ cl_pc = "r255"
    /\ \E stt_text \in Transcripts :
           LET text == transcribe_audio(stt_text)
           IN  IF Filtered(text)
               THEN /\ agent_state' = SetState(agent_state, "LISTENING")
                    /\ BackToLoop(cl_stop_event)
                    /\ UNCHANGED <<pending_utterance, last_utterance_age>>
               ELSE IF Coalesce(last_utterance_age, pending_utterance)
               THEN /\ user_text' = JoinStrip(pending_utterance, text)
                    /\ pending_utterance' = ""
                    /\ last_utterance_age' = 0
                    /\ turn_kind' = IF pending_utterance # "" THEN "merged" ELSE "alone"
                    /\ turn_expect' = IF pending_utterance # ""
                                      THEN pending_utterance \o " " \o text ELSE ""
                    /\ user_parts' = IF pending_utterance # ""
                                     THEN <<pending_utterance, text>> ELSE <<text>>
                    /\ cl_pc' = "r282"
                    /\ UNCHANGED <<agent_state, cl_site, response_json, response_pcm,
                                   llm_calls>>
               ELSE IF ~EndsSentence(text) /\ WordCount(text) < 5
               THEN /\ pending_utterance' = text
                    /\ last_utterance_age' = 0
                    /\ agent_state' = SetState(agent_state, "LISTENING")
                    /\ BackToLoop(cl_stop_event)
               ELSE /\ user_text' = text
                    /\ last_utterance_age' = 0
                    /\ turn_kind' = "alone"
                    /\ user_parts' = <<text>>
                    /\ cl_pc' = "r282"
                    /\ UNCHANGED <<pending_utterance, agent_state, cl_site, response_json,
                                   response_pcm, turn_expect, llm_calls>>
    /\ UNCHANGED <<snd_left, sleep_age>>
    /\ UNCHANGED <<not_cl_vars, conversation_history, eng_ws, eng_ap, eng_self, snd_history>>

\* twilio_handler.py:282-283
CL_Int282 ==
    /\ cl_pc = "r282"
    /\ IF interrupted
       THEN interrupted' = FALSE /\ cl_pc' = "r284"
       ELSE cl_pc' = "r288" /\ UNCHANGED interrupted
    /\ UNCHANGED <<cl_stop_event, hangup_age>>
    /\ UNCHANGED <<not_cl_vars, eng_session, eng_ws, eng_ap, eng_data, snd_history, eng_turn>>

\* twilio_handler.py:284-285 and 299-300: set_state("LISTENING"); continue
CL_Listening ==
    /\ cl_pc = "r284"
    /\ agent_state' = SetState(agent_state, "LISTENING")
    /\ BackToLoop(cl_stop_event)
    /\ UNCHANGED <<not_cl_vars, conversation_history, eng_ws, eng_ap, eng_self, eng_keep,
                   snd_history>>

\* twilio_handler.py:292: response_json.get("text", "").strip()
text_to_speak(json) == Strip(Get(json, "text", ""))

\* twilio_handler.py:288-295: generate_response(self.session, user_text) and
\* what the reply asks for.  A null text raises at line 292; nothing in run
\* catches it, so the thread ends there.
CL_Llm ==
    /\ cl_pc = "r288"
    /\ \E outcome \in LLMOutcomes :
           LET result == generate_response(conversation_history, user_text, outcome)
               json == result.response
           IN  /\ conversation_history' = result.history
               /\ response_json' = json
               /\ IF json = EmptyDict
                  THEN cl_pc' = "r250" /\ UNCHANGED sleep_age
                  ELSE IF Get(json, "text", "") = Null
                  THEN cl_pc' = "crashed" /\ UNCHANGED sleep_age
                  ELSE IF text_to_speak(json) # "" /\ Len(text_to_speak(json)) > 2
                  THEN cl_pc' = "r295" /\ sleep_age' = 0
                  ELSE cl_pc' = "r314" /\ UNCHANGED sleep_age
    /\ llm_calls' = Append(llm_calls, user_text)
    /\ UNCHANGED <<cl_site, user_text, response_pcm, pending_utterance, last_utterance_age,
                   snd_left>>
    /\ UNCHANGED <<not_cl_vars, agent_state, eng_ws, eng_ap, eng_self, snd_history,
                   turn_kind, turn_expect, user_parts>>

\* twilio_handler.py:290 and 250: the reply is an empty object; the pass ends.
CL_NoReply ==
    /\ cl_pc = "r250"
    /\ BackToLoop(cl_stop_event)
    /\ UNCHANGED <<not_cl_vars, eng_session, eng_ws, eng_ap, eng_self, eng_keep,
                   snd_history>>

\* twilio_handler.py:295: time.sleep(AGENT_RESPONSE_DELAY_MS / 1000.0) is over.
CL_Wake ==
    /\ cl_pc = "r295"
    /\ sleep_age >= AGENT_RESPONSE_DELAY_MS
    /\ sleep_age' = None
    /\ cl_pc' = "r297"
    /\ UNCHANGED <<eng_pass, pending_utterance, last_utterance_age, snd_left>>
    /\ UNCHANGED <<not_cl_vars, eng_session, eng_ws, eng_ap, eng_self, snd_history, eng_turn>>

\* twilio_handler.py:297-298, else on to synthesize_speech (303)
CL_Int297 ==
    /\ cl_pc = "r297"
    /\ IF interrupted
       THEN interrupted' = FALSE /\ cl_pc' = "r284" /\ UNCHANGED cl_site
       ELSE cl_site' = "reply" /\ cl_pc' = "syn_probe" /\ UNCHANGED interrupted
    /\ UNCHANGED <<cl_stop_event, hangup_age>>
    /\ UNCHANGED <<user_text, response_json, response_pcm, eng_keep>>
    /\ UNCHANGED <<not_cl_vars, eng_session, eng_ws, eng_ap, snd_history, eng_turn>>

\* twilio_handler.py:304
CL_Reply304 ==
    /\ cl_pc = "r304"
    /\ cl_pc' = IF response_pcm > 0 /\ ~interrupted THEN "s52" ELSE "r307"
    /\ UNCHANGED <<not_cl_vars, eng_session, eng_ws, eng_ap, eng_self, eng_data,
                   snd_history, eng_turn>>

\* twilio_handler.py:307-312: a second read of the flag.  Set, it is cleared
\* and the session goes back to LISTENING (308-309, taken as one step); clear,
\* the TTS has failed and the engine stops itself.
CL_Reply307 ==
    /\ cl_pc = "r307"
    /\ IF interrupted
       THEN /\ interrupted' = FALSE
            /\ agent_state' = SetState(agent_state, "LISTENING")
            /\ UNCHANGED cl_stop_event
       ELSE /\ cl_stop_event' = TRUE
            /\ UNCHANGED <<interrupted, agent_state>>
    /\ cl_pc' = "r314"
    /\ UNCHANGED hangup_age
    /\ UNCHANGED <<not_cl_vars, conversation_history, eng_ws, eng_ap, eng_data,
                   snd_history, eng_turn>>

\* twilio_handler.py:314-316: on a hangup the Timer(3.0, self.stop) is started.
CL_Hangup314 ==
    /\ cl_pc = "r314"
    /\ hangup_age' = IF Get(response_json, "action", "respond") = "hangup" /\ hangup_age = None
                     THEN 0 ELSE hangup_age
    /\ BackToLoop(cl_stop_event)
    /\ UNCHANGED <<cl_stop_event, interrupted>>
    /\ UNCHANGED <<not_cl_vars, eng_session, eng_ws, eng_ap, eng_keep, snd_history>>

\* twilio_handler.py:318-320 and, when nothing is flushed, 330-333: no
\* utterance for 100 ms.
CL_Empty ==
    /\ cl_pc = "poll"
    /\ utterance_queue = <<>>
    /\ IF pending_utterance # "" /\ last_utterance_age > utterance_timeout
       THEN /\ cl_pc' = "i321"
            /\ turn_kind' = "idle"
            /\ user_parts' = <<pending_utterance>>
            /\ UNCHANGED <<cl_stop_event, eng_pass, turn_expect, llm_calls>>
       ELSE /\ cl_stop_event' = (cl_stop_event \/ should_end)
            /\ BackToLoop(cl_stop_event \/ should_end)
    /\ UNCHANGED <<interrupted, hangup_age>>
    /\ UNCHANGED <<not_cl_vars, eng_session, eng_ws, eng_ap, eng_keep, snd_history>>

\* twilio_handler.py:321-323: the pending text goes to the LLM.
CL_IdleLlm ==
    /\ cl_pc = "i321"
    /\ \E outcome \in LLMOutcomes :
           LET result == generate_response(conversation_history, pending_utterance, outcome)
               speak == /\ result.response # EmptyDict
                        /\ Truthy(Get(result.response, "text", Null))
           IN  /\ conversation_history' = result.history
               /\ response_json' = result.response
               /\ cl_pc' = IF speak THEN "i323" ELSE "i327"
               /\ sleep_age' = IF speak THEN 0 ELSE sleep_age
    /\ llm_calls' = Append(llm_calls, pending_utterance)
    /\ UNCHANGED <<cl_site, user_text, response_pcm, pending_utterance, last_utterance_age,
                   snd_left>>
    /\ UNCHANGED <<not_cl_vars, agent_state, eng_ws, eng_ap, eng_self, snd_history,
                   turn_kind, turn_expect, user_parts>>

\* twilio_handler.py:323-324: the sleep is over; synthesize_speech without a probe.
CL_IdleWake ==
    /\ cl_pc = "i323"
    /\ sleep_age >= AGENT_RESPONSE_DELAY_MS
    /\ sleep_age' = None
    /\ cl_site' = "idle"
    /\ cl_pc' = "syn_probe"
    /\ UNCHANGED <<user_text, response_json, response_pcm, pending_utterance,
                   last_utterance_age, snd_left>>
    /\ UNCHANGED <<not_cl_vars, eng_session, eng_ws, eng_ap, eng_self, snd_history, eng_turn>>

\* twilio_handler.py:325-326
CL_Idle325 ==
    /\ cl_pc = "i325"
    /\ cl_pc' = IF response_pcm > 0 THEN "s52" ELSE "i327"
    /\ UNCHANGED <<not_cl_vars, eng_session, eng_ws, eng_ap, eng_self, eng_data,
                   snd_history, eng_turn>>

\* twilio_handler.py:327-333: the pending text is dropped, the call's
\* duration is checked.
CL_Idle327 ==
    /\ cl_pc = "i327"
    /\ pending_utterance' = ""
    /\ cl_stop_event' = (cl_stop_event \/ should_end)
    /\ BackToLoop(cl_stop_event \/ should_end)
    /\ UNCHANGED <<interrupted, hangup_age, last_utterance_age, snd_left, sleep_age>>
    /\ UNCHANGED <<not_cl_vars, eng_session, eng_ws, eng_ap, snd_history>>


\* twilio_handler.py:336
CL_Exit336 ==
    /\ cl_pc = "x336"
    /\ ap_stop_event' = TRUE
    /\ cl_pc' = "x338"
    /\ UNCHANGED <<utterance_queue, agent_speech_ages, is_sending_audio,
                   stop_audio_transmission>>
    /\ UNCHANGED <<not_cl_vars, eng_session, eng_ws, eng_self, eng_data, snd_history,
                   eng_turn>>

\* twilio_handler.py:337-340: the socket is closed.
CL_Exit338 ==
    /\ cl_pc = "x338"
    /\ ws_open' = FALSE
    /\ cl_pc' = "done"
    /\ UNCHANGED <<not_cl_vars, eng_session, marks_pending, eng_ap, eng_self, eng_data,
                   snd_history, eng_turn>>

(***************************************************************************)
(* websocket_handler: the events after start                               *)
(***************************************************************************)
\* twilio_handler.py:402-406: the carrier echoes a mark (agent_speech_complete
\* or agent_speech_stopped).
WS_Mark ==
    /\ ws_handler_running
    /\ ws_open
    /\ marks_pending > 0
    /\ marks_pending' = marks_pending - 1
    /\ agent_state' = SetState(agent_state, "LISTENING")
    /\ UNCHANGED <<shared_vars, conversation_history, duration_elapsed, ws_open,
                   ws_handler_running, frame_buffer, media_events>>
    /\ UNCHANGED <<ap_shared_vars, seg_vars, ap_local_vars, cl_vars>>

\* The mutant of WS_Stop that stops the audio pipeline only.
WS_StopKeepsEngine ==
    /\ ws_handler_running
    /\ ws_handler_running' = FALSE
    /\ ws_open' = FALSE
    /\ ap_stop_event' = TRUE
    /\ UNCHANGED cl_stop_event
    /\ EndCall
    /\ UNCHANGED <<codec_vars, rx_vars, ws_conns, session_vars, frame_buffer, marks_pending, media_events>>
    /\ UNCHANGED <<incoming_audio_queue, utterance_queue, agent_speech_ages,
                   is_sending_audio, stop_audio_transmission>>
    /\ UNCHANGED <<seg_vars, ap_local_vars, interrupted, interrupt_timers, hangup_age,
                   cl_local_vars, history_vars>>

\* twilio_handler.py:408-419: a stop event, a malformed message or a closed
\* socket ends the receive loop; the finally clause stops both workers and
\* releases the call, and the socket closes with the handler.
WS_Stop ==
    /\ ws_handler_running
    /\ ws_handler_running' = FALSE
    /\ ws_open' = FALSE
    /\ ap_stop_event' = TRUE
    /\ cl_stop_event' = TRUE
    /\ EndCall
    /\ UNCHANGED <<codec_vars, rx_vars, ws_conns, session_vars, frame_buffer, marks_pending, media_events>>
    /\ UNCHANGED <<incoming_audio_queue, utterance_queue, agent_speech_ages,
                   is_sending_audio, stop_audio_transmission>>
    /\ UNCHANGED <<seg_vars, ap_local_vars, interrupted, interrupt_timers, hangup_age,
                   cl_local_vars, history_vars>>


(***************************************************************************)
(* The state of a call once the start event has been handled               *)
(* (twilio_handler.py:381-389): both workers have just been started.       *)
(***************************************************************************)
CallInit ==
    /\ ws_open = TRUE
    /\ ws_handler_running = TRUE
    /\ frame_buffer = 0
    /\ marks_pending = 0
    /\ media_events = 0
    /\ AudioInit
    /\ EngineInit

Init == RLInit /\ CodecIdle /\ RxInit /\ SessionInit /\ CallInit

(***************************************************************************)
(* The rate limiter and the session on their own                           *)
(***************************************************************************)
RLNext == RLCall \/ end_call \/ RLTick

SpecRL == Init /\ [][RLNext]_vars

SessionNext == add_exchange \/ set_state

SpecSession == Init /\ [][SessionNext]_vars

(***************************************************************************)
(* The codec on its own: one buffer is encoded and decoded back.           *)
(***************************************************************************)
CodecNext == CodecEncode \/ CodecDecode

CodecStart == RLInit /\ CodecInit /\ RxInit /\ SessionInit /\ CallInit

SpecCodec == CodecStart /\ [][CodecNext]_vars

(***************************************************************************)
(* The segmentation on its own: the carrier sends one frame every          *)
(* VAD_FRAME_MS, the agent never speaks, and the engine only takes the     *)
(* utterances off the queue.                                               *)
(***************************************************************************)
\* The carrier waits while SegMaxQueue frames are queued and while an
\* utterance is waiting.  The caller stops speaking once the buffer holds
\* MaxBufferFrames, and after a pause longer than the tolerance speaks on only
\* in an utterance of fewer than SegResumeFrames frames.
SegMaxQueue == 1
MaxBufferFrames == 502
SegResumeFrames == 3
\* The mu-law payload the carrier sends every VAD_FRAME_MS, in bytes.
SegPayloadSizes == {160}

SegMedia ==
    /\ Len(incoming_audio_queue) < SegMaxQueue
    /\ utterance_queue = <<>>
    /\ \E n \in SegPayloadSizes : MediaEvent(n)
    /\ (\/ speech_buffer >= MaxBufferFrames
        \/ (silence_started_age # None /\ speech_buffer >= SegResumeFrames))
          => \A i \in 1..Len(incoming_audio_queue') : ~incoming_audio_queue'[i]
    /\ Advance(VAD_FRAME_MS)
    /\ UNCHANGED <<ap_stop_event, utterance_queue, is_sending_audio, stop_audio_transmission>>
    /\ UNCHANGED <<speech_buffer, is_currently_speech, pause_tolerance_frames>>
    /\ UNCHANGED <<shared_vars, session_vars, ap_local_vars>>
    /\ UNCHANGED <<ws_open, ws_handler_running, marks_pending, media_events>>
    /\ UNCHANGED <<cl_stop_event, interrupted, history_vars>>
    /\ UNCHANGED <<cl_pc, cl_site, pending_utterance, user_text, response_json,
                   response_pcm, snd_left>>

\* twilio_handler.py:252: the engine takes the utterance at the head.
SegTake ==
    /\ utterance_queue # <<>>
    /\ utterance_queue' = Tail(utterance_queue)
    /\ UNCHANGED <<ap_stop_event, incoming_audio_queue, agent_speech_ages,
                   is_sending_audio, stop_audio_transmission>>
    /\ UNCHANGED <<shared_vars, session_vars, ws_vars, seg_vars, ap_local_vars, cl_vars>>

SegNext == SegMedia \/ AP_Get \/ AP_Empty \/ AP_Segment \/ SegTake

SpecSeg == Init /\ [][SegNext]_vars

(***************************************************************************)
(* A whole call: the transport handler, the audio pipeline, the engine,    *)
(* the timers and the clock.                                               *)
(***************************************************************************)
\* Bounds: the carrier sends at most MaxMediaEvents media events, each of one
\* frame or of eight, every frame of them speech, and sends one only when the
\* pipeline has taken the frames before it and holds no unfinished utterance;
\* after the first it sends only while the engine waits for an utterance with
\* a pending text younger than utterance_timeout, or one frame into the
\* greeting when an utterance made before it is queued.
MaxMediaEvents == 2
CallPayloadSizes == {160, 1280}

\* The caller speaks on while a text is pending.
SpeaksOn ==
    /\ cl_pc = "poll"
    /\ pending_utterance # ""
    /\ last_utterance_age < utterance_timeout

\* The caller speaks into the greeting, after an utterance made before it.
SpeaksIntoGreeting ==
    /\ cl_site = "greet"
    /\ agent_state = "SPEAKING"
    /\ utterance_queue # <<>>

MediaUpTo(max_events) ==
    /\ ws_handler_running
    /\ ws_open
    /\ media_events < max_events
    /\ media_events > 0 => (SpeaksOn \/ SpeaksIntoGreeting)
    /\ incoming_audio_queue = <<>>
    /\ speech_buffer = 0
    /\ \E n \in CallPayloadSizes :
           /\ (media_events > 0 /\ ~SpeaksOn) => 2 * n = frame_bytes
           /\ MediaEvent(n)
    /\ \A i \in 1..Len(incoming_audio_queue') : incoming_audio_queue'[i]
    /\ media_events' = media_events + 1
    /\ UNCHANGED <<shared_vars, session_vars, ws_open, ws_handler_running, marks_pending>>
    /\ UNCHANGED <<ap_stop_event, utterance_queue, agent_speech_ages,
                   is_sending_audio, stop_audio_transmission>>
    /\ UNCHANGED <<seg_vars, ap_local_vars, cl_vars>>

CallMedia == MediaUpTo(MaxMediaEvents)

\* The clock of the call model moves in steps of CallTickSteps: the short step
\* while an instant younger than it is being waited on, the long step while
\* the last utterance or a hangup is younger than it and the pipeline, which
\* polls every 100 ms, holds neither a frame nor an unfinished utterance.
CallTickSteps == {100, 3000}

TickUseful(d) ==
    IF d < utterance_timeout
    THEN \/ last_agent_speech_age < ECHO_CANCELLATION_MS
         \/ sleep_age # None /\ sleep_age < AGENT_RESPONSE_DELAY_MS
         \/ \E i \in 1..Len(interrupt_timers) : interrupt_timers[i] < InterruptClearMs
    ELSE /\ incoming_audio_queue = <<>> /\ ~is_currently_speech
         /\ \/ last_utterance_age <= utterance_timeout
            \/ hangup_age # None /\ hangup_age < HangupDelayMs

CallTick ==
    /\ \E d \in CallTickSteps : TickUseful(d) /\ Advance(d)
    /\ UNCHANGED <<shared_vars, session_vars, ws_vars>>
    /\ UNCHANGED <<ap_stop_event, incoming_audio_queue, utterance_queue,
                   is_sending_audio, stop_audio_transmission>>
    /\ UNCHANGED <<speech_buffer, is_currently_speech, pause_tolerance_frames>>
    /\ UNCHANGED <<ap_local_vars, cl_stop_event, interrupted, history_vars>>
    /\ UNCHANGED <<cl_pc, cl_site, pending_utterance, user_text, response_json,
                   response_pcm, snd_left>>

\* The call has lasted MAX_CALL_DURATION_S: every instant of it is old.
CallDurationElapses ==
    /\ ~duration_elapsed
    /\ duration_elapsed' = TRUE
    /\ Advance(MAX_CALL_DURATION_S * 1000)
    /\ UNCHANGED <<shared_vars, conversation_history, agent_state, ws_vars>>
    /\ UNCHANGED <<ap_stop_event, incoming_audio_queue, utterance_queue,
                   is_sending_audio, stop_audio_transmission>>
    /\ UNCHANGED <<speech_buffer, is_currently_speech, pause_tolerance_frames>>
    /\ UNCHANGED <<ap_local_vars, cl_stop_event, interrupted, history_vars>>
    /\ UNCHANGED <<cl_pc, cl_site, pending_utterance, user_text, response_json,
                   response_pcm, snd_left>>

AudioThread ==
    \/ AP_Loop \/ AP_Get \/ AP_Empty \/ AP_Barge \/ AP_Segment
    \/ SS_91 \/ SS_92 \/ SS_Flush \/ SS_Mark \/ SS_State
    \/ HI_237 \/ HI_238 \/ HI_240

EngineThread ==
    \/ CL_SynProbe \/ CL_SynCall \/ CL_Greet247
    \/ CL_S52 \/ CL_S53 \/ CL_S54 \/ CL_S55 \/ CL_SCheck \/ CL_SWrite \/ CL_SAfter
    \/ CL_SMark \/ CL_SEnd
    \/ CL_Loop \/ CL_Take \/ CL_Thinking \/ CL_Stt
    \/ CL_Int282 \/ CL_Listening \/ CL_Llm \/ CL_NoReply \/ CL_Wake \/ CL_Int297
    \/ CL_Reply304 \/ CL_Reply307 \/ CL_Hangup314
    \/ CL_Empty \/ CL_IdleLlm \/ CL_IdleWake \/ CL_Idle325 \/ CL_Idle327
    \/ CL_Exit336 \/ CL_Exit338

CallNext ==
    \/ CallMedia \/ WS_Mark
    \/ AudioThread
    \/ EngineThread
    \/ InterruptTimerFires \/ HangupTimerFires
    \/ CallTick

SpecCall == Init /\ [][CallNext]_vars

(***************************************************************************)
(* The end of a call: the call of the model above with at most             *)
(* MaxStopMediaEvents media events, admitted by the limiter, whose handler *)
(* may leave its receive loop at any time.  Each worker thread runs on     *)
(* while it can take a step, and time passes while something waits for it. *)
(***************************************************************************)
MaxStopMediaEvents == 1

StopMedia == MediaUpTo(MaxStopMediaEvents)

\* twilio_handler.py:350: the limiter once voice_webhook has admitted the call.
AdmittedInit ==
    /\ ws_conns = [waiting |-> 0, admitted |-> 1, stray |-> 0]
    /\ active_calls = 1
    /\ call_timestamps = [c \in Callers |-> IF c = "a" THEN <<0>> ELSE <<>>]
    /\ now = 0
    /\ rl_op = <<"can_start_call", "a">>
    /\ rl_ret = TRUE
    /\ rl_window = [c \in Callers |-> IF c = "a" THEN <<0>> ELSE <<>>]
    /\ rl_denied = {}

StopInit == AdmittedInit /\ CodecIdle /\ RxInit /\ SessionInit /\ CallInit

StopNext ==
    \/ StopMedia \/ WS_Mark \/ WS_Stop
    \/ AudioThread
    \/ EngineThread
    \/ InterruptTimerFires \/ HangupTimerFires
    \/ CallTick

SpecStop ==
    /\ StopInit /\ [][StopNext]_vars
    /\ WF_vars(AudioThread) /\ WF_vars(EngineThread) /\ WF_vars(CallTick)

(***************************************************************************)
(* A call that reaches MAX_CALL_DURATION_S: the call of the model above    *)
(* with at most MaxStopMediaEvents media events, whose duration may run    *)
(* out at any time.                                                        *)
(***************************************************************************)
DurationNext ==
    \/ StopMedia \/ WS_Mark
    \/ AudioThread
    \/ EngineThread
    \/ InterruptTimerFires \/ HangupTimerFires
    \/ CallTick \/ CallDurationElapses

SpecDuration == Init /\ [][DurationNext]_vars

(***************************************************************************)
(* The accumulator of websocket_handler on its own, byte by byte: the      *)
(* carrier sends up to MaxRxEvents media events with payloads of the       *)
(* lengths of RxPayloadLens.                                               *)
(***************************************************************************)
RxNext == RxMedia

SpecRx == Init /\ [][RxNext]_vars

(***************************************************************************)
(* The server and its connections: /voice admits calls, the carrier opens  *)
(* the stream of an admitted call on /ws, anyone else may connect to /ws   *)
(* too, and every websocket_handler ends in its finally clause.            *)
(***************************************************************************)
\* twilio_handler.py:344-363: /voice; the TwiML of an admitted call tells the
\* carrier to open its stream on /ws.
voice_webhook(caller_id) ==
    /\ can_start_call(caller_id)
    /\ ws_conns' = IF rl_ret' THEN [ws_conns EXCEPT !.waiting = @ + 1] ELSE ws_conns

\* twilio_handler.py:365-370: websocket_handler starts for the stream of an
\* admitted call.
WS_ConnectAdmitted ==
    /\ ws_conns.waiting > 0
    /\ ws_conns' = [ws_conns EXCEPT !.waiting = @ - 1, !.admitted = @ + 1]
    /\ UNCHANGED <<rl_vars, not_rl_vars>>

\* Bound: at most MaxStrayConns connections to /ws at a time that no /voice
\* request stands behind.
MaxStrayConns == 1

\* twilio_handler.py:365-370: the route takes any connection; nothing ties
\* it to an admission.
WS_ConnectStray ==
    /\ ws_conns.stray < MaxStrayConns
    /\ ws_conns' = [ws_conns EXCEPT !.stray = @ + 1]
    /\ UNCHANGED <<rl_vars, not_rl_vars>>

\* twilio_handler.py:414-419: the finally clause of a handler, whose
\* connection is of the given kind.
WS_Cleanup(kind) ==
    /\ ws_conns[kind] > 0
    /\ ws_conns' = [ws_conns EXCEPT ![kind] = @ - 1]
    /\ EndCall
    /\ UNCHANGED not_rl_vars

ServerNext ==
    \/ \E c \in Callers : voice_webhook(c)
    \/ WS_ConnectAdmitted
    \/ WS_ConnectStray
    \/ WS_Cleanup("admitted")
    \/ WS_Cleanup("stray")

SpecServer == Init /\ [][ServerNext]_vars

(***************************************************************************)
(* Claims about the rate limiter (under SpecRL)                            *)
(***************************************************************************)

\* C1: after any interleaving of can_start_call and end_call, active_calls
\* is within [0, MAX_CONCURRENT_CALLS].
C1_ActiveCallsInRange == active_calls \in 0..MAX_CONCURRENT_CALLS

\* C1 witness: a call was refused at the cap, with the counter at the cap.
C1_Witness ==
    /\ rl_op[1] = "can_start_call"
    /\ rl_ret = FALSE
    /\ active_calls = MAX_CONCURRENT_CALLS

\* C2: a can_start_call that returns false, for either reason, leaves
\* active_calls and every caller's timestamp queue as they were.
C2_DenialChangesNothing ==
    [][(rl_op'[1] = "can_start_call" /\ rl_ret' = FALSE)
          => (active_calls' = active_calls /\ call_timestamps' = call_timestamps)]_vars

\* C2 witness: caller "a" was refused by the per-caller check (below the cap)
\* while caller "b" holds timestamps of its own.
C2_Witness ==
    /\ rl_op = <<"can_start_call", "a">>
    /\ rl_ret = FALSE
    /\ active_calls < MAX_CONCURRENT_CALLS
    /\ call_timestamps["b"] # <<>>

\* C3: below the cap, a caller's call is admitted exactly when fewer than
\* RATE_LIMIT_CALLS_PER_WINDOW of its admissions are inside the window: the
\* first 10 in a window are admitted, the next one is refused, and a call made
\* once earlier admissions have left the window is admitted again.
C3_WindowAdmission ==
    [][\A c \in Callers :
          (rl_op' = <<"can_start_call", c>> /\ active_calls < MAX_CONCURRENT_CALLS)
             => (rl_ret' = (Len(rl_window[c]) < RATE_LIMIT_CALLS_PER_WINDOW))]_vars

\* C3 witness: a caller that had been refused by the per-caller check is
\* admitted again, its deque full of admissions younger than the one window.
C3_Witness ==
    \E c \in Callers :
        /\ rl_op = <<"can_start_call", c>>
        /\ rl_ret = TRUE
        /\ c \in rl_denied
        /\ now > WindowSeconds

(***************************************************************************)
(* Claims about the session (under SpecSession)                            *)
(***************************************************************************)

C7_UtteranceDurationInRange ==
    \A i \in 1..Len(utterance_queue) :
        /\ utterance_queue[i] * VAD_FRAME_MS >= VAD_MIN_SPEECH_MS
        /\ utterance_queue[i] * VAD_FRAME_MS <= MAX_UTTERANCE_LENGTH_MS

(***************************************************************************)
(* Claims about a call (under SpecCall)                                    *)
(***************************************************************************)

\* The changes of session.agent_state in the table of section 4.5.
TableTransitions ==
    {<<"LISTENING", "THINKING">>, <<"THINKING", "SPEAKING">>, <<"SPEAKING", "LISTENING">>}

\* C4: session.agent_state changes only along the table: LISTENING to
\* THINKING, THINKING to SPEAKING, SPEAKING to LISTENING.
C4_OnlyTableTransitions ==
    [][agent_state' # agent_state => <<agent_state, agent_state'>> \in TableTransitions]_vars

\* C5: once stop_speaking has returned, the send loop it interrupted writes
\* no further chunk of the reply to the socket.
C5_NoChunkAfterStopReturns ==
    [][(cl_pc = "s_write" /\ cl_pc' = "s_check") => snd_interrupt # "returned"]_vars

\* The pass of the audio loop over the frame in hand read SPEAKING at line 152.
SawSpeaking ==
    IF ap_pc = "barge" THEN agent_state = "SPEAKING" ELSE ap_state_seen = "SPEAKING"

\* C6: the pass of the audio loop over a frame ends having called
\* stop_speaking and then handle_interruption if the frame is speech and
\* agent_state was read SPEAKING, and having called neither otherwise.
C6_BargeInOnSpeakingFrame ==
    [][(ap_pc \in {"barge", "hi240"} /\ ap_pc' \in {"get", "done"})
          => ap_calls = IF ap_is_speech /\ SawSpeaking
                        THEN <<"stop_speaking", "handle_interruption">>
                        ELSE <<>>]_vars

\* C6 witness: handle_interruption is returning to the loop after
\* stop_speaking, for a first speech frame read while SPEAKING.
C6_Witness ==
    /\ ap_pc = "hi240"
    /\ ap_is_speech
    /\ ap_state_seen = "SPEAKING"
    /\ ap_calls = <<"stop_speaking", "handle_interruption">>
    /\ media_events = 1

\* What section 4.5 rejects: an empty text, fewer than 3 characters, a
\* hallucination phrase, fewer than MIN_MEANINGFUL_WORDS words, a filler.
SpecRejects(text) ==
    \/ text = ""
    \/ Len(Strip(text)) < 3
    \/ \E phrase \in hallucinations : Contains(Lower(text), phrase)
    \/ WordCount(text) < MIN_MEANINGFUL_WORDS
    \/ Strip(Lower(text)) \in fillers

\* C9: generate_response is never called, at once or from the idle path,
\* with a text made of a transcript that section 4.5 rejects.
C9_RejectedNeverReachesLLM ==
    [][Len(llm_calls') > Len(llm_calls)
          => \A i \in 1..Len(user_parts) : ~SpecRejects(user_parts[i])]_vars

\* A text that is kept as pending_utterance when it does not follow another
\* within utterance_timeout: fewer than 5 words, no end punctuation.
Stashable(text) == ~EndsSentence(text) /\ WordCount(text) < 5

\* A transcript that comes more than utterance_timeout after the last
\* accepted one goes on to the LLM only if it is not stashable.
StashedWhenLate ==
    (cl_pc = "r255" /\ cl_pc' = "r282" /\ last_utterance_age > utterance_timeout)
        => ~Stashable(user_text')

\* A transcript accepted within utterance_timeout of the stash is merged with
\* the pending text, which is cleared.
MergedWhenSoon ==
    (/\ cl_pc = "r255" /\ cl_pc' # "r255"
     /\ pending_utterance # "" /\ last_utterance_age < utterance_timeout
     /\ ~(cl_pc' \in {"poll", "x336"} /\ pending_utterance' = pending_utterance))
        => /\ cl_pc' = "r282"
           /\ turn_kind' = "merged"
           /\ user_text' = turn_expect'
           /\ pending_utterance' = ""

\* The pass that handles a merged text ends.
MergedTurnEnds == turn_kind = "merged" /\ turn_kind' = "none"

\* C10: a short text without end punctuation that comes more than 3 s after
\* the last accepted one is stashed without an LLM call; the next accepted
\* text within 3 s of the stash is merged with it, and the LLM is called
\* exactly once for the pair, with pending + " " + new, pending_utterance
\* being empty afterwards.
C10_StashThenMergeOnce ==
    [][/\ StashedWhenLate
       /\ MergedWhenSoon
       /\ MergedTurnEnds => (llm_calls = <<turn_expect>> /\ pending_utterance' = "")]_vars

\* C10 as it holds: the same, except that a merged turn that finds the
\* interruption flag set at line 282 is dropped without an LLM call.
C10_StashThenMergeUnlessInterrupted ==
    [][/\ StashedWhenLate
       /\ MergedWhenSoon
       /\ turn_kind = "merged" =>
              /\ pending_utterance = ""
              /\ llm_calls \in {<<>>, <<turn_expect>>}
       /\ MergedTurnEnds =>
              /\ pending_utterance' = ""
              /\ \/ llm_calls = <<turn_expect>>
                 \/ cl_pc = "r284" /\ llm_calls = <<>>]_vars

\* C10 witness: "what is" was stashed, "your name" came within 3 s, and the
\* LLM has been called once, with "what is your name".
C10_Witness ==
    /\ turn_kind = "merged"
    /\ user_parts = <<"what is", "your name">>
    /\ llm_calls = <<"what is your name">>
    /\ pending_utterance = ""

(***************************************************************************)
(* C14                                                                     *)
(***************************************************************************)
\* The quantization step of the segment a sample is encoded in.
QuantStep(sample) == 2^(Exponent(sample) + 3)

\* C14: pcm_to_ulaw returns one byte per sample, and decode_mulaw of those
\* bytes gives, sample by sample, a value of the same sign whose magnitude is
\* off by no more than the quantization step of the sample's segment; the
\* sample 0 is encoded as 0xFF and decoded as 0.
C14_CodecRoundTrip ==
    /\ codec_pc # "idle" => Len(codec_ulaw) = Len(codec_pcm)
    /\ codec_pc = "decoded" =>
           /\ Len(codec_out) = Len(codec_pcm)
           /\ \A i \in 1..Len(codec_pcm) :
                  LET sample == codec_pcm[i]
                      back == codec_out[i]
                  IN  /\ sample > 0 => back >= 0
                      /\ sample < 0 => back <= 0
                      /\ Abs(Abs(sample) - Abs(back)) <= QuantStep(sample)
                      /\ sample = 0 => codec_ulaw[i] = 255 /\ back = 0

(***************************************************************************)
(* C11, C12, C16, C17, C18                                                 *)
(***************************************************************************)
\* The reply in hand asks for a hangup (the action as run reads it at 291).
HangupReply == Get(response_json, "action", "respond") = "hangup"

\* The engine thread takes a step from one of the positions in pcs.
EngineLeaves(pcs) == cl_pc \in pcs /\ cl_pc' # cl_pc

\* C11: whenever the LLM reply of a turn has the action "hangup", on the
\* utterance path or on the idle flush, the turn ends with the 3-second timer
\* running (or the stop flag already set), so that the engine's stop flag gets
\* set, its loop exits, the audio pipeline is stopped and the socket closed.
C11_HangupEndsCall ==
    [][(EngineLeaves({"r314", "i327"}) /\ HangupReply)
           => (hangup_age' # None \/ cl_stop_event')]_vars

\* C12: when synthesize_speech has returned no audio for a reply and the
\* interruption flag is not set, the turn is dropped and the engine's stop
\* flag is left as it was: the call goes on.
C12_TtsFailureKeepsCall ==
    [][(EngineLeaves({"r307"}) /\ response_pcm = 0 /\ ~interrupted)
           => cl_stop_event' = cl_stop_event]_vars

\* The engine thread is in lines 66-74 or 77-82 of send_audio_to_twilio, each
\* of which is a write to the socket.
InSendWrite == cl_pc \in {"s_write", "s_mark"}

\* The audio thread is in lines 95-106 or 108-113 of stop_speaking, each of
\* which is a write to the socket.
InStopWrite == ap_pc \in {"ss95", "ss113"}

\* C16: the writes to the socket are serialized: the send loop (engine
\* thread) and stop_speaking (audio thread) are never both in a write.
C16_WritesSerialized == ~(InSendWrite /\ InStopWrite)

\* C17: handling a turn for which the LLM call succeeds with some text adds
\* to the history the user's text once and then the reply, and nothing else
\* (the history being cut to its last 10 entries).
C17_OneUserEntryPerTurn ==
    [][(EngineLeaves({"r288"}) /\ response_json' # FallbackResponse
            /\ response_json' # EmptyDict /\ Truthy(Get(response_json', "text", "")))
           => conversation_history' =
                  LastTen(conversation_history \o
                          <<[role |-> "user", content |-> user_text],
                            [role |-> "assistant", content |-> response_json'.text]>>)]_vars

\* C18: no send is started with the interruption flag set, be it for the
\* greeting, a reply or the idle flush of a pending text; and a turn that
\* reaches the check before the LLM call with the flag set is dropped there:
\* the flag is cleared, no LLM call is made, and the session is then set to
\* LISTENING.
C18_FlagStopsEverySend ==
    /\ [][(cl_pc # "s52" /\ cl_pc' = "s52") => ~interrupted]_vars
    /\ [][(EngineLeaves({"r282"}) /\ interrupted)
              => (~interrupted' /\ cl_pc' = "r284" /\ llm_calls' = llm_calls)]_vars
    /\ [][EngineLeaves({"r284"}) => agent_state' = "LISTENING"]_vars

(***************************************************************************)
(* C13                                                                     *)
(***************************************************************************)
\* The audio thread has left its loop (line 144).
AudioLoopLeft == ap_pc = "done"

\* The engine thread has left its loop (line 250), or has died in it.
EngineLoopLeft == cl_pc \in {"x336", "x338", "done", "crashed"}

\* C13: when the handler leaves its receive loop (stop event, closed socket,
\* malformed message), both workers' stop flags are set and the call is
\* released once: active_calls goes down by one there and is not touched
\* again; and both worker threads then eventually leave their loops.
C13_StopEndsWorkersAndReleases ==
    /\ [][(ws_handler_running /\ ~ws_handler_running')
              => (ap_stop_event' /\ cl_stop_event' /\ active_calls' = active_calls - 1)]_vars
    /\ [][~ws_handler_running => active_calls' = active_calls]_vars
    /\ (~ws_handler_running) ~> (AudioLoopLeft /\ EngineLoopLeft)

\* The handler has left while a text was pending and nothing had been said
\* to the LLM, so that the engine did not stop on its own account; both
\* workers have left their loops and the call is released.
C13_Witness ==
    /\ ~ws_handler_running
    /\ pending_utterance # ""
    /\ conversation_history = <<>>
    /\ AudioLoopLeft
    /\ cl_pc = "done"
    /\ active_calls = 0

\* The audio thread ends the pass it made for the frame in hand.
FramePassEnds == ap_pc \in {"barge", "hi240"} /\ ap_pc' \in {"get", "done"}

\* C19: while a reply is streamed, a frame whose time was read at line 148
\* less than ECHO_CANCELLATION_MS after the most recent outbound chunk is
\* kept out of segmentation: the pass made for it leaves the speech buffer,
\* the segmentation flag and the utterance queue as they were.
C19_EchoWindowFollowsChunks ==
    [][(FramePassEnds /\ time_since_chunk < ECHO_CANCELLATION_MS)
        => UNCHANGED <<speech_buffer, is_currently_speech, utterance_queue>>]_vars

\* stop_speaking has set stop_audio_transmission during the send in progress.
SendInterrupted == snd_interrupt # "none"

\* C20: a send that no stop_speaking interrupted and that ran to its last
\* chunk on an open socket has written the mark agent_speech_complete when
\* it returns; a send that stop_speaking interrupted has not written it; and
\* no reply has both agent_speech_complete and agent_speech_stopped.
C20_OneMarkPerReply ==
    /\ [][(EngineLeaves({"s_end"}) /\ ~SendInterrupted /\ ws_open)
           => "complete" \in reply_marks]_vars
    /\ [][(EngineLeaves({"s_end"}) /\ SendInterrupted)
           => "complete" \notin reply_marks]_vars
    /\ [](~({"complete", "stopped"} \subseteq reply_marks))

\* The positions of the chunk loop of send_audio_to_twilio (lines 61-76).
InChunkLoop == cl_pc \in {"s_check", "s_write", "s_after"}

\* C15: once stop_speaking has set stop_audio_transmission during a send, the
\* send writes at most one more chunk of the reply, and outside the chunk loop
\* no chunk of a reply is left to be written.
C15_AtMostOneChunkAfterStop ==
    /\ snd_late <= 1
    /\ ~InChunkLoop => snd_left = 0

\* s is the beginning of t.
IsPrefix(s, t) == Len(s) <= Len(t) /\ SubSeq(t, 1, Len(s)) = s

\* The steps the claim gives for stop_speaking, in its order.
StopSpeakingOrder ==
    <<[step |-> "stop_audio_transmission"]>>
    \o [i \in 1..5 |-> [step |-> "ws.send", event |-> "media",
                        payload |-> [byte |-> 255, times |-> 160]]]
    \o <<[step |-> "ws.send", event |-> "clear"],
         [step |-> "ws.send", event |-> "mark", name |-> "agent_speech_stopped"],
         [step |-> "set_state", state |-> "LISTENING"]>>

\* stop_speaking returns from line 114, not through its except clause.
StopSpeakingReturns == ap_pc = "ss114" /\ ap_pc' = "hi237"

\* C21: what stop_speaking has done is at every moment a beginning of: the
\* flag set, five media frames of 160 bytes 0xFF, one clear event, one mark
\* agent_speech_stopped, the state set to LISTENING; and when it returns
\* normally it has done all of it and the state it wrote is LISTENING.
C21_StopSpeakingOrder ==
    /\ [](IsPrefix(ss_steps, StopSpeakingOrder))
    /\ [][StopSpeakingReturns
           => (ss_steps' = StopSpeakingOrder /\ agent_state' = "LISTENING")]_vars

C21_Witness ==
    /\ ap_pc = "hi237"
    /\ ap_calls = <<"stop_speaking">>
    /\ ss_steps = StopSpeakingOrder
    /\ agent_state = "LISTENING"

\* The engine ends a pass of its loop that took an utterance or flushed the
\* pending text (twilio_handler.py:250: back at the loop head, or out of it).
LoopPassEnds ==
    /\ cl_site # "greet"
    /\ cl_pc \notin {"poll", "x336", "x338", "done", "crashed"}
    /\ cl_pc' \in {"poll", "x336"}

RECURSIVE Flatten(_)
Flatten(frames) == IF frames = <<>> THEN <<>> ELSE Head(frames) \o Flatten(Tail(frames))

\* C23: every frame passed to the audio pipeline is exactly 320 bytes, the
\* accumulator holds fewer than 320 bytes after each media event, and the
\* frames passed so far followed by the accumulator are the decoded payloads
\* received so far, byte for byte.
C23_ReframingKeepsEveryByte ==
    /\ \A i \in 1..Len(rx_frames) : Len(rx_frames[i]) = 320
    /\ Len(rx_frame_buffer) < 320
    /\ Flatten(rx_frames) \o rx_frame_buffer = rx_decoded

C23_Witness ==
    /\ rx_events = MaxRxEvents
    /\ Len(rx_frames) >= 2
    /\ rx_frame_buffer # <<>>
    /\ Len(rx_decoded) = 2 * (159 + 161 + 1)

\* The send is writing the chunks of a reply and reads stop_audio_transmission clear.
SendingUninterrupted ==
    /\ cl_pc \in {"s_check", "s_write"}
    /\ snd_left > 0
    /\ ~stop_audio_transmission

\* C24: while a send is in progress and has not been interrupted,
\* session.agent_state is SPEAKING.
C24_SpeakingWhileSending == SendingUninterrupted => agent_state = "SPEAKING"

\* The calls /voice admitted whose handler has not run its cleanup yet.
AdmittedCalls == ws_conns.waiting + ws_conns.admitted

\* C25: active_calls is the number of calls admitted by /voice whose
\* WebSocket handler has not yet run its cleanup, and the cleanup of a
\* connection that was not admitted leaves active_calls alone.
C25_AdmissionsBalanced ==
    /\ [](active_calls = AdmittedCalls)
    /\ [][ws_conns'.stray < ws_conns.stray => active_calls' = active_calls]_vars

\* The stashed text changes.
StashChanges == pending_utterance # "" /\ pending_utterance' # pending_utterance

\* generate_response is called.
LlmCalled == Len(llm_calls') > Len(llm_calls)

\* C26: a stashed text is never replaced, and nothing is passed to the LLM
\* ahead of it: the stash changes only by being cleared, either by the merge
\* with a newly accepted transcript or by the idle flush that has passed it
\* to the LLM, and while a text is stashed the only text passed to the LLM is
\* the stash itself, by the idle flush.
C26_StashNeverLost ==
    /\ [][StashChanges =>
            /\ pending_utterance' = ""
            /\ \/ turn_kind' = "merged" /\ Head(user_parts') = pending_utterance
               \/ cl_pc = "i327" /\ llm_calls = <<pending_utterance>>]_vars
    /\ [][(LlmCalled /\ pending_utterance # "") =>
            (cl_pc = "i321" /\ llm_calls' = <<pending_utterance>>)]_vars

\* C27: whenever the engine is back at its utterance-queue poll and has not
\* stopped, session.agent_state is not THINKING.
C27_NeverThinkingAtPoll ==
    (cl_pc = "poll" /\ ~cl_stop_event) => agent_state # "THINKING"


=============================================================================
